---------------------------- MODULE Spec2Model ----------------------------
(***************************************************************************)
(* A model of the SPARQL parser of spargebra (src/spargebra/src/parser.rs) *)
(* : the Unicode preprocessor, the ParserState threaded through the PEG    *)
(* grammar (base IRI, prefixes, blank-node scoping sets, aggregate stack)  *)
(* and the update rewriters.                                               *)
(*                                                                         *)
(* Characters are Unicode code points (integers); strings are sequences of *)
(* code points.                                                            *)
(***************************************************************************)
EXTENDS Integers, Sequences, FiniteSets, TLC

VARIABLES
    \* ---- unescape_unicode_codepoints / UnescapeUnicodeCharIterator
    input,      \* the &str handed to unescape_unicode_codepoints
    iter,       \* UnescapeUnicodeCharIterator.iter: the characters not yet read
    buffer,     \* UnescapeUnicodeCharIterator.buffer
    output,     \* the characters collected so far (the returned Cow<str>)
    ustate,     \* "call" | "iterating" | "borrowed" | "collected" | "panicked"
    \* ---- parse_query / parse_update and the grammar's actions
    call,       \* the entry point called and the base_iri argument it was given
    pc,         \* "entry" | "prologue" | "body" | "returned"
    error,      \* "none" | "InvalidBaseIri" | "Parser": the ParseErrorKind returned
    operations, \* the Vec<GraphUpdateOperation> collected by the Update rule
    last,       \* the grammar action performed last, with what it produced
    steps,      \* how many grammar actions have been performed
    \* ---- ParserState
    base_iri,   \* Option<Iri<String>>
    namespaces, \* HashMap<String, String>: prefix -> IRI
    used_bnodes,            \* HashSet<BlankNode>
    currently_used_bnodes,  \* HashSet<BlankNode>
    aggregates, \* Vec<Vec<(Variable, AggregationFunction)>>
    \* ---- where the grammar is in the text
    ctx,        \* the queries, sub-selects and groups entered and not yet left
    allocated,  \* how many times variable() has been called
    \* ---- history
    decls,      \* the declarations of the prologue parsed so far, in order
    closed,     \* the labels used in a group graph pattern that has closed
    shared,     \* the labels accepted in more than one group graph pattern
    \* ---- the algebraic builders called from the grammar's actions
    args,       \* the arguments the builder under study is called with
    result      \* what the builder has returned so far

uvars == <<input, iter, buffer, output, ustate>>
gvars == <<call, pc, error, operations, last, steps>>
svars == <<base_iri, namespaces>>
bvars == <<used_bnodes, currently_used_bnodes, closed, shared>>
avars == <<aggregates, allocated>>
fvars == <<args, result>>

vars == <<input, iter, buffer, output, ustate, call, pc, error, operations,
          last, steps, base_iri, namespaces, used_bnodes,
          currently_used_bnodes, aggregates, ctx, allocated, decls, closed, shared,
          args, result>>

(***************************************************************************)
(* Generic helpers                                                         *)
(***************************************************************************)
Min(a, b) == IF a < b THEN a ELSE b

RECURSIVE SeqsUpTo(_, _)
SeqsUpTo(S, n) ==
    IF n = 0 THEN {<<>>}
    ELSE LET shorter == SeqsUpTo(S, n - 1)
         IN  shorter \cup {Append(s, c) : s \in shorter, c \in S}

SeqsOfLen(S, n) == [1..n -> S]

(***************************************************************************)
(* Characters                                                              *)
(***************************************************************************)
Backslash == 92     \* '\\'
LowerU    == 117    \* 'u'
UpperU    == 85     \* 'U'
Zero      == 48     \* '0'
UpperD    == 68     \* 'D'
Plus      == 43     \* '+'
Five      == 53     \* '5'
UpperC    == 67     \* 'C'
EAcute    == 233    \* U+00E9, two bytes in UTF-8
Euro      == 8364   \* U+20AC, three bytes in UTF-8

\* The number of characters read after \u and after \U.
ShortEscapeLen == 4
LongEscapeLen  == 8

\* char::from_u32 rejects everything above MaxCodePoint and the surrogates.
MaxCodePoint   == 1114111
SurrogateFirst == 55296
SurrogateLast  == 57343

\* The UTF-8 encoding of one character, as str::as_bytes sees it.
Utf8(c) ==
    IF c < 128 THEN <<c>>
    ELSE IF c < 2048 THEN <<192 + (c \div 64), 128 + (c % 64)>>
    ELSE IF c < 65536 THEN
        <<224 + (c \div 4096), 128 + ((c \div 64) % 64), 128 + (c % 64)>>
    ELSE <<240 + (c \div 262144), 128 + ((c \div 4096) % 64),
           128 + ((c \div 64) % 64), 128 + (c % 64)>>

RECURSIVE Bytes(_)
Bytes(s) == IF s = <<>> THEN <<>> ELSE Utf8(Head(s)) \o Bytes(Tail(s))

\* The byte offsets of s at which a character starts, and the end of s.
RECURSIVE CharBoundaries(_, _)
CharBoundaries(s, at) ==
    IF s = <<>> THEN {at}
    ELSE {at} \cup CharBoundaries(Tail(s), at + Len(Utf8(Head(s))))

\* &s[from..to] of a str: the characters between two byte offsets. Rust panics
\* when an offset is not a character boundary of s.
SliceOk(s, from, to) ==
    /\ from <= to
    /\ from \in CharBoundaries(s, 0)
    /\ to \in CharBoundaries(s, 0)

RECURSIVE SliceFrom(_, _, _, _)
SliceFrom(s, at, from, to) ==
    IF s = <<>> THEN <<>>
    ELSE LET rest == SliceFrom(Tail(s), at + Len(Utf8(Head(s))), from, to)
         IN  IF at >= from /\ at < to THEN <<Head(s)>> \o rest ELSE rest

Slice(s, from, to) == SliceFrom(s, 0, from, to)

\* char::to_digit(16) of one byte; -1 stands for None.
HexDigit(b) ==
    IF b >= 48 /\ b <= 57 THEN b - 48
    ELSE IF b >= 65 /\ b <= 70 THEN b - 55
    ELSE IF b >= 97 /\ b <= 102 THEN b - 87
    ELSE -1

\* u32::from_str_radix(s, 16): -1 stands for Err. A leading '+' is accepted
\* (std's rule for every integer type), a '-' is an invalid digit of a u32.
\* At most 8 digits are given, so a u32 never overflows; the accumulator is
\* capped at MaxCodePoint + 1, which char::from_u32 rejects like any larger
\* value, to keep the arithmetic within the checker's integers.
RECURSIVE RadixDigits(_, _)
RadixDigits(bs, acc) ==
    IF bs = <<>> THEN acc
    ELSE IF HexDigit(Head(bs)) < 0 THEN -1
    ELSE RadixDigits(Tail(bs), Min(acc * 16 + HexDigit(Head(bs)), MaxCodePoint + 1))

from_str_radix(s) ==
    LET bs == Bytes(s)
    IN  IF bs = <<>> THEN -1
        ELSE IF Head(bs) = Plus THEN
            (IF Tail(bs) = <<>> THEN -1 ELSE RadixDigits(Tail(bs), 0))
        ELSE RadixDigits(bs, 0)

\* char::from_u32; -1 stands for None.
from_u32(v) ==
    IF v < 0 \/ v > MaxCodePoint THEN -1
    ELSE IF v >= SurrogateFirst /\ v <= SurrogateLast THEN -1
    ELSE v

(***************************************************************************)
(* The Unicode preprocessor                                                *)
(***************************************************************************)
needs_unescape_unicode_codepoints(s) ==
    LET bytes == Bytes(s)
    IN  \E i \in 2..Len(bytes) :
            /\ bytes[i] = LowerU \/ bytes[i] = UpperU
            /\ bytes[i - 1] = Backslash

\* The body of the Some('u') and Some('U') arms of next(): the buffer takes
\* the letter, then up to n characters of the iterator; with fewer than n left
\* the backslash is returned and the characters read stay buffered. Otherwise
\* &buffer[1..n + 1] is parsed as a hexadecimal code point.
EscapeArm(letter, n, rest) ==
    IF Len(rest) < n THEN
        [emit |-> <<Backslash>>, iter |-> <<>>, buffer |-> <<letter>> \o rest,
         panic |-> FALSE]
    ELSE
        LET buf == <<letter>> \o SubSeq(rest, 1, n)
            after == SubSeq(rest, n + 1, Len(rest))
        IN  IF ~SliceOk(buf, 1, n + 1) THEN
                [emit |-> <<>>, iter |-> after, buffer |-> buf, panic |-> TRUE]
            ELSE
                LET c == from_u32(from_str_radix(Slice(buf, 1, n + 1)))
                IN  IF c >= 0 THEN
                        [emit |-> <<c>>, iter |-> after, buffer |-> <<>>,
                         panic |-> FALSE]
                    ELSE
                        [emit |-> <<Backslash>>, iter |-> after, buffer |-> buf,
                         panic |-> FALSE]

\* UnescapeUnicodeCharIterator::next with an empty buffer and a character to
\* read: emit is <<c>> for Some(c).
NextFromIter(it) ==
    LET c == Head(it)
        rest == Tail(it)
    IN  IF c # Backslash THEN
            [emit |-> <<c>>, iter |-> rest, buffer |-> <<>>, panic |-> FALSE]
        ELSE IF rest = <<>> THEN
            [emit |-> <<Backslash>>, iter |-> rest, buffer |-> <<>>, panic |-> FALSE]
        ELSE IF Head(rest) = LowerU THEN EscapeArm(LowerU, ShortEscapeLen, Tail(rest))
        ELSE IF Head(rest) = UpperU THEN EscapeArm(UpperU, LongEscapeLen, Tail(rest))
        ELSE [emit |-> <<Backslash>>, iter |-> Tail(rest), buffer |-> <<Head(rest)>>,
              panic |-> FALSE]

\* The characters of the inputs, and the characters that fill the eight
\* places of a \U escape.
Alphabet   == {Backslash, LowerU, UpperU, Zero, UpperD, Plus, EAcute}
EscapeFill == {Zero, UpperD, Plus, EAcute, Euro}
LongFill   == {Zero, UpperD, EAcute}

\* The escape of a backslash with up to MaxAfter characters after it, as in
\* \u00DD; a backslash twice before u and four digits; and the start of
\* an escape within the four characters read after \u.
MaxAfter == 5
EscapedBackslash ==
    {<<Backslash, LowerU, Zero, Zero, Five, UpperC>> \o t :
        t \in SeqsUpTo({LowerU, Zero, UpperD}, MaxAfter)}
DoubledBackslash ==
    {<<Backslash, Backslash, LowerU>> \o d : d \in SeqsOfLen({Zero, UpperD}, ShortEscapeLen)}
EscapeInEscape ==
    {<<Backslash, LowerU>> \o pre \o <<Backslash, LowerU>> \o d :
        pre \in SeqsUpTo({Zero, UpperD}, ShortEscapeLen - 1),
        d \in SeqsOfLen({Zero, UpperD, EAcute}, ShortEscapeLen)}

\* The longest input made of arbitrary characters.
MaxLen == 4

Inputs ==
    SeqsUpTo(Alphabet, MaxLen)
    \cup {<<Backslash, LowerU>> \o d \o t :
            d \in SeqsOfLen(EscapeFill, ShortEscapeLen),
            t \in SeqsUpTo(Alphabet, 1)}
    \cup {<<Backslash, UpperU>> \o d : d \in SeqsOfLen(LongFill, LongEscapeLen)}
    \cup EscapedBackslash \cup DoubledBackslash \cup EscapeInEscape

\* The parser's variables while only the preprocessor runs.
None == <<"None">>
Some(v) == <<"Some", v>>
Err == <<"Err">>
Ok(v) == <<"Ok", v>>

\* ParserState as parse_query and parse_update build it without a base IRI.
NewState ==
    /\ base_iri = None
    /\ namespaces = [ns \in {} |-> <<>>]
    /\ used_bnodes = {}
    /\ currently_used_bnodes = {}
    /\ aggregates = <<>>
    /\ ctx = <<>>
    /\ allocated = 0
    /\ decls = <<>>
    /\ closed = {}
    /\ shared = {}

ParserIdle ==
    /\ NewState
    /\ call = [fn |-> "parse_query", base_iri |-> None]
    /\ pc = "entry"
    /\ error = "none"
    /\ operations = <<>>
    /\ last = [rule |-> "none"]
    /\ steps = 0

\* The preprocessor's variables while the grammar runs.
UnescapeDone ==
    /\ input = <<>>
    /\ iter = <<>>
    /\ buffer = <<>>
    /\ output = <<>>
    /\ ustate = "borrowed"

UInit ==
    /\ args = <<>>
    /\ result = <<>>
    /\ ParserIdle
    /\ input \in Inputs
    /\ iter = <<>>
    /\ buffer = <<>>
    /\ output = <<>>
    /\ ustate = "call"

\* unescape_unicode_codepoints: the borrowed input, or the iterator to collect.
unescape_unicode_codepoints ==
    /\ ustate = "call"
    /\ IF needs_unescape_unicode_codepoints(input)
       THEN /\ iter' = input
            /\ ustate' = "iterating"
            /\ output' = <<>>
       ELSE /\ output' = input
            /\ ustate' = "borrowed"
            /\ iter' = iter
    /\ UNCHANGED <<input, buffer>>
    /\ UNCHANGED <<fvars, gvars, svars, bvars, avars, ctx, decls>>

\* One call of UnescapeUnicodeCharIterator::next by collect().
next ==
    /\ ustate = "iterating"
    /\ IF buffer # <<>> THEN
            /\ output' = Append(output, Head(buffer))
            /\ buffer' = Tail(buffer)
            /\ UNCHANGED <<iter, ustate>>
       ELSE IF iter = <<>> THEN
            /\ ustate' = "collected"
            /\ UNCHANGED <<iter, buffer, output>>
       ELSE LET r == NextFromIter(iter)
            IN  /\ iter' = r.iter
                /\ buffer' = r.buffer
                /\ output' = output \o r.emit
                /\ ustate' = IF r.panic THEN "panicked" ELSE "iterating"
    /\ UNCHANGED input
    /\ UNCHANGED <<fvars, gvars, svars, bvars, avars, ctx, decls>>

UNext == unescape_unicode_codepoints \/ next

SpecUnescape == UInit /\ [][UNext]_vars

(***************************************************************************)
(* C1: parse_query and parse_update never panic on well-formed UTF-8       *)
(* input; in particular the Unicode preprocessor, which runs over the      *)
(* whole text first, never panics whatever follows a \u or a \U.           *)
(***************************************************************************)
C1_NeverPanics == ustate # "panicked"

(***************************************************************************)
(* The update rewriters: ADD, MOVE and COPY                                *)
(***************************************************************************)
DefaultGraph == <<"DefaultGraph">>
NamedNode(i) == <<"NamedNode", i>>
Variable(n)  == <<"Variable", n>>

\* The resolved IRIs that name graphs, and what GraphOrDefault returns.
GraphIris  == {"http://e/g1", "http://e/g2"}
GraphNames == {DefaultGraph} \cup {NamedNode(i) : i \in GraphIris}

\* The most update operations in one request.
MaxOps == 2

TriplePattern(s, p, o) == [subject |-> s, predicate |-> p, object |-> o]
QuadPattern(s, p, o, g) ==
    [subject |-> s, predicate |-> p, object |-> o, graph_name |-> g]
Bgp(patterns) == [t |-> "Bgp", patterns |-> patterns]
Graph(name, inner) == [t |-> "Graph", graph_name |-> name, inner |-> inner]

Drop(silent, graph) == [op |-> "Drop", silent |-> silent, graph |-> graph]

copy_graph(from, to) ==
    LET bgp == Bgp(<<TriplePattern(Variable("s"), Variable("p"), Variable("o"))>>)
    IN  [op |-> "DeleteInsert",
         delete |-> <<>>,
         insert |-> <<QuadPattern(Variable("s"), Variable("p"), Variable("o"), to)>>,
         using |-> <<"None">>,
         pattern |-> IF from = DefaultGraph THEN bgp ELSE Graph(from, bgp)]

Add(silent, from, to) ==
    IF from = to THEN <<>> ELSE <<copy_graph(from, to)>>

MoveNoIdentity(silent, from, to) ==
    <<Drop(TRUE, to), copy_graph(from, to), Drop(silent, from)>>

MoveSilentFirst(silent, from, to) ==
    IF from = to THEN <<>>
    ELSE <<Drop(silent, to), copy_graph(from, to), Drop(TRUE, from)>>

Move(silent, from, to) ==
    IF from = to THEN <<>>
    ELSE <<Drop(TRUE, to), copy_graph(from, to), Drop(silent, from)>>

Copy(silent, from, to) ==
    IF from = to THEN <<>> ELSE <<Drop(TRUE, to), copy_graph(from, to)>>

\* One Update1 of the Update rule: r names the rule that matches.
Rewrite(r, silent, from, to) ==
    IF r = "Add" THEN Add(silent, from, to)
    ELSE IF r = "Move" THEN Move(silent, from, to)
    ELSE Copy(silent, from, to)

Update1(r) ==
    /\ pc = "body"
    /\ steps < MaxOps
    /\ \E silent \in BOOLEAN, from \in GraphNames, to \in GraphNames :
          LET produced == Rewrite(r, silent, from, to)
          IN  /\ operations' = operations \o produced
              /\ last' = [rule |-> r, silent |-> silent, from |-> from,
                          to |-> to, produced |-> produced]
    /\ steps' = steps + 1
    /\ UNCHANGED <<fvars, call, pc, error>>
    /\ UNCHANGED <<uvars, svars, bvars, avars, ctx, decls>>

\* The end of the request: parse_update returns the operations.
UpdateEnd ==
    /\ pc = "body"
    /\ pc' = "returned"
    /\ UNCHANGED <<fvars, call, error, operations, last, steps>>
    /\ UNCHANGED <<uvars, svars, bvars, avars, ctx, decls>>

UpdateInit ==
    /\ args = <<>>
    /\ result = <<>>
    /\ UnescapeDone
    /\ NewState
    /\ call = [fn |-> "parse_update", base_iri |-> None]
    /\ pc = "body"
    /\ error = "none"
    /\ operations = <<>>
    /\ last = [rule |-> "none"]
    /\ steps = 0

UpdateNext ==
    \/ Update1("Add")
    \/ Update1("Move")
    \/ Update1("Copy")
    \/ UpdateEnd

SpecUpdate == UpdateInit /\ [][UpdateNext]_vars

(***************************************************************************)
(* C9: ADD, MOVE and COPY whose source and destination are the same graph  *)
(* (both DEFAULT, or the same IRI) produce no operation at all, with or    *)
(* without SILENT.                                                         *)
(***************************************************************************)
C9_IdentityIsEmpty ==
    [][(last'.rule \in {"Add", "Move", "Copy"} /\ steps' = steps + 1
            /\ last'.from = last'.to)
        => (last'.produced = <<>> /\ operations' = operations)]_vars

C9_Witness ==
    /\ last.rule = "Move"
    /\ last.silent
    /\ last.from = NamedNode("http://e/g1")
    /\ last.to = last.from
    /\ steps = 2
    /\ operations # <<>>

(***************************************************************************)
(* C10: MOVE a TO b with a # b produces exactly three operations in this   *)
(* order: a Drop of b with silent = true, the copy of a into b, and a Drop *)
(* of a whose silent flag is the SILENT flag of the MOVE.                  *)
(***************************************************************************)
C10_MoveRewriting ==
    (last.rule = "Move" /\ last.from # last.to) =>
        /\ Len(last.produced) = 3
        /\ last.produced[1] = [op |-> "Drop", silent |-> TRUE, graph |-> last.to]
        /\ last.produced[2].op = "DeleteInsert"
        /\ last.produced[2].delete = <<>>
        /\ Len(last.produced[2].insert) = 1
        /\ last.produced[2].insert[1].graph_name = last.to
        /\ last.produced[2].pattern =
              IF last.from = DefaultGraph
              THEN Bgp(<<TriplePattern(Variable("s"), Variable("p"), Variable("o"))>>)
              ELSE Graph(last.from,
                         Bgp(<<TriplePattern(Variable("s"), Variable("p"), Variable("o"))>>))
        /\ last.produced[3] =
              [op |-> "Drop", silent |-> last.silent, graph |-> last.from]
        /\ SubSeq(operations, Len(operations) - 2, Len(operations)) = last.produced

C10_Witness ==
    /\ last.rule = "Move"
    /\ ~last.silent
    /\ last.from = NamedNode("http://e/g1")
    /\ last.to = DefaultGraph
    /\ Len(operations) = 3

(***************************************************************************)
(* IRIs: Iri::parse and Iri::resolve of the oxiri crate, for IRI           *)
(* references made of a scheme, path segments and percent escapes.         *)
(***************************************************************************)
Colon   == 58     \* ':'
Slash   == 47     \* '/'
Percent == 37     \* '%'
Hyphen  == 45     \* '-'
Space   == 32     \* ' '
LowerA  == 97     \* 'a'
LowerB  == 98     \* 'b'
LowerX  == 120    \* 'x'

IsLetter(c) == (c >= 65 /\ c <= 90) \/ (c >= 97 /\ c <= 122)

\* The ASCII characters no IRI reference may hold: controls, space, and
\* < > " { } | \ ^ `
IsIriChar(c) == c > 32 /\ c \notin {60, 62, 34, 123, 125, 124, 92, 94, 96}

PercentOk(s) ==
    \A i \in 1..Len(s) :
        s[i] = Percent =>
            /\ i + 2 <= Len(s)
            /\ HexDigit(s[i + 1]) >= 0
            /\ HexDigit(s[i + 2]) >= 0

IriRefOk(s) == (\A i \in 1..Len(s) : IsIriChar(s[i])) /\ PercentOk(s)

\* The position of the colon that ends the scheme of s, 0 without a scheme.
SchemeEnd(s) ==
    IF \E i \in 2..Len(s) : s[i] = Colon /\ \A j \in 1..(i - 1) : IsLetter(s[j])
    THEN CHOOSE i \in 2..Len(s) : s[i] = Colon /\ \A j \in 1..(i - 1) : IsLetter(s[j])
    ELSE 0

\* Iri::parse: an absolute IRI, or an error.
IriParse(s) == IF SchemeEnd(s) > 0 /\ IriRefOk(s) THEN Ok(s) ELSE Err

\* Where the part of a base that a relative path keeps ends: its last slash,
\* or the colon of its scheme.
MergePoint(base) ==
    LET slashes == {i \in 1..Len(base) : base[i] = Slash}
    IN  IF slashes = {} THEN SchemeEnd(base)
        ELSE CHOOSE i \in slashes : \A j \in slashes : j <= i

\* Iri::resolve of a reference that is absolute, empty, or a relative path
\* without dot segments.
IriResolve(base, r) ==
    IF ~IriRefOk(r) THEN Err
    ELSE IF SchemeEnd(r) > 0 THEN Ok(r)
    ELSE IF r = <<>> THEN Ok(base)
    ELSE Ok(SubSeq(base, 1, MergePoint(base)) \o r)

(***************************************************************************)
(* unescape_pn_local                                                       *)
(***************************************************************************)
\* _ ~ . - ! $ & ' ( ) * + , ; = / ? # @ %
UNESCAPE_PN_CHARACTERS ==
    {95, 126, 46, 45, 33, 36, 38, 39, 40, 41, 42, 43, 44, 59, 61, 47, 63, 35, 64, 37}

\* UNESCAPE_PN_REPLACEMENT.get: every key maps to itself; -1 stands for None.
UNESCAPE_PN_REPLACEMENT(ch) == IF ch \in UNESCAPE_PN_CHARACTERS THEN ch ELSE -1

needs_unescape_characters(s, characters) ==
    LET bytes == Bytes(s)
    IN  \E i \in 2..Len(bytes) :
            bytes[i - 1] = Backslash /\ bytes[i] \in characters

\* What collect() gathers from UnescapeCharsIterator: a backslash and the
\* character after it become the replacement of that character, when it has
\* one; otherwise both stay.
RECURSIVE UnescapeChars(_)
UnescapeChars(s) ==
    IF s = <<>> THEN <<>>
    ELSE IF Head(s) # Backslash THEN <<Head(s)>> \o UnescapeChars(Tail(s))
    ELSE IF Tail(s) = <<>> THEN <<Backslash>>
    ELSE LET ch == Head(Tail(s))
             rest == Tail(Tail(s))
         IN  IF UNESCAPE_PN_REPLACEMENT(ch) >= 0
             THEN <<UNESCAPE_PN_REPLACEMENT(ch)>> \o UnescapeChars(rest)
             ELSE <<Backslash, ch>> \o UnescapeChars(rest)

unescape_pn_local(s) ==
    IF needs_unescape_characters(s, UNESCAPE_PN_CHARACTERS)
    THEN UnescapeChars(s)
    ELSE s

(***************************************************************************)
(* parse_query, parse_update, the prologue and the IRI rules               *)
(***************************************************************************)
Fail(message) == <<"Err", message>>
IsOk(r) == r[1] = "Ok"

\* The base_iri field of the ParserState built from the argument: the
\* argument parsed as an IRI, and InvalidBaseIri when that fails.
InitialBaseUnchecked(arg) == Ok(arg)

InitialBase(arg) ==
    IF arg = None THEN Ok(None)
    ELSE IF IsOk(IriParse(arg[2])) THEN Ok(Some(arg[2]))
    ELSE Fail("InvalidBaseIri")

parse_iri_no_base(base, iri) == IriParse(iri)

parse_iri(base, iri) ==
    IF base # None THEN IriResolve(base[2], iri) ELSE IriParse(iri)

IRIREF(base, i) ==
    IF IsOk(parse_iri(base, i)) THEN parse_iri(base, i)
    ELSE Fail("IRI parsing failed")

PNAME_LN(nss, ns, local) ==
    IF ns \in DOMAIN nss THEN
        IF IsOk(IriParse(nss[ns] \o unescape_pn_local(local)))
        THEN IriParse(nss[ns] \o unescape_pn_local(local))
        ELSE Fail("IRI parsing failed")
    ELSE Fail("Prefix not found")

\* PrefixedName at the text ns:local. PNAME_LN needs a local part of one
\* character at least; the second alternative reads ns: only and leaves the
\* local part (rest) unread.
PrefixedName(nss, ns, local) ==
    IF local # <<>> /\ IsOk(PNAME_LN(nss, ns, local))
    THEN [res |-> PNAME_LN(nss, ns, local), rest |-> <<>>]
    ELSE IF ns \in DOMAIN nss THEN
        [res |-> IF IsOk(IriParse(nss[ns])) THEN IriParse(nss[ns])
                 ELSE Fail("IRI parsing failed"),
         rest |-> local]
    ELSE [res |-> Fail("Prefix not found"), rest |-> local]

\* http://www.w3.org/1999/02/22-rdf-syntax-ns#type
RdfType ==
    <<104, 116, 116, 112, 58, 47, 47, 119, 119, 119, 46, 119, 51, 46,
      111, 114, 103, 47, 49, 57, 57, 57, 47, 48, 50, 47, 50, 50, 45,
      114, 100, 102, 45, 115, 121, 110, 116, 97, 120, 45, 110, 115, 35,
      116, 121, 112, 101>>

\* A term (subject, object, graph name, ...) at the text ns:local: iri().
Term(nss, ns, local) ==
    [res |-> PrefixedName(nss, ns, local).res,
     fallback |-> FALSE,
     object |-> None,
     rest |-> PrefixedName(nss, ns, local).rest]

\* Verb and PathPrimary at the text ns:local: iri() first, then the literal
\* "a", which reads one character whatever follows it (fallback); the
\* object of the triple is then read from the rest of the text, Tail(ns):local.
Verb(nss, ns, local) ==
    IF IsOk(PrefixedName(nss, ns, local).res) THEN Term(nss, ns, local)
    ELSE IF ns # <<>> /\ Head(ns) = LowerA THEN
        [res |-> Ok(RdfType),
         fallback |-> TRUE,
         object |-> Some(PrefixedName(nss, Tail(ns), local).res),
         rest |-> PrefixedName(nss, Tail(ns), local).rest]
    ELSE Term(nss, ns, local)

\* The texts of the model: the base IRI arguments, the IRI references
\* between < and >, the prefixes and the local parts.
BaseArgs == {None, Some(<<LowerA, Colon, Slash>>), Some(<<LowerX, Slash>>),
             Some(<<Space>>)}
IriRefs  == {<<LowerB, Colon, Slash>>, <<LowerX, Slash>>, <<Space>>}
Prefixes == {<<>>, <<LowerA>>, <<LowerB>>}
Locals   == {<<>>, <<LowerX>>, <<Backslash, Hyphen, LowerX>>,
             <<Backslash, Percent, LowerX>>}

\* The most declarations in a prologue, and the most names used after it.
MaxDecls == 2
MaxUses  == 1

\* Whether the parse goes on after a prefixed name read at a site. What is
\* left of a local part starts with a backslash, which starts no rule. At
\* "term" the name is a subject or an object; at "verb" it is followed by
\* the text of an object; at "verb-last" by the end of the triple.
Accepted(site, r) ==
    /\ IsOk(r.res)
    /\ r.rest = <<>>
    /\ site = "verb" => ~r.fallback
    /\ site = "verb-last" => (r.fallback /\ IsOk(r.object[2]))

Reject ==
    /\ pc' = "returned"
    /\ error' = "Parser"

\* parse_query and parse_update up to the call of the grammar: the
\* ParserState is built, then the text is preprocessed.
Entry(fn) ==
    /\ pc = "entry"
    /\ call.fn = fn
    /\ IF IsOk(InitialBase(call.base_iri))
       THEN /\ base_iri' = InitialBase(call.base_iri)[2]
            /\ namespaces' = [ns \in {} |-> <<>>]
            /\ ustate' = IF needs_unescape_unicode_codepoints(input)
                          THEN "collected" ELSE "borrowed"
            /\ output' = input
            /\ pc' = "prologue"
            /\ error' = error
       ELSE /\ pc' = "returned"
            /\ error' = "InvalidBaseIri"
            /\ UNCHANGED <<base_iri, namespaces, ustate, output>>
    /\ UNCHANGED <<input, iter, buffer, fvars, call, operations, last, steps, decls>>
    /\ UNCHANGED <<bvars, avars, ctx>>

parse_query == Entry("parse_query")
parse_update == Entry("parse_update")

BaseDecl ==
    /\ pc = "prologue"
    /\ Len(decls) < MaxDecls
    /\ \E i \in IriRefs :
          /\ last' = [rule |-> "BaseDecl", text |-> i, res |-> IRIREF(base_iri, i)]
          /\ IF IsOk(IRIREF(base_iri, i))
             THEN /\ base_iri' = Some(IRIREF(base_iri, i)[2])
                  /\ decls' = Append(decls, <<"BASE", i>>)
                  /\ UNCHANGED <<pc, error>>
             ELSE /\ Reject
                  /\ UNCHANGED <<base_iri, decls>>
    /\ steps' = steps + 1
    /\ UNCHANGED <<fvars, call, operations, namespaces>>
    /\ UNCHANGED <<uvars, bvars, avars, ctx>>

PrefixDecl ==
    /\ pc = "prologue"
    /\ Len(decls) < MaxDecls
    /\ \E ns \in Prefixes, i \in IriRefs :
          /\ last' = [rule |-> "PrefixDecl", ns |-> ns, text |-> i,
                      res |-> IRIREF(base_iri, i)]
          /\ IF IsOk(IRIREF(base_iri, i))
             THEN /\ namespaces' =
                        [p \in DOMAIN namespaces \cup {ns} |->
                            IF p = ns THEN IRIREF(base_iri, i)[2] ELSE namespaces[p]]
                  /\ decls' = Append(decls, <<"PREFIX", ns, i>>)
                  /\ UNCHANGED <<pc, error>>
             ELSE /\ Reject
                  /\ UNCHANGED <<namespaces, decls>>
    /\ steps' = steps + 1
    /\ UNCHANGED <<fvars, call, operations, base_iri>>
    /\ UNCHANGED <<uvars, bvars, avars, ctx>>

\* An <iri> after the prologue.
UseIriRef ==
    /\ pc \in {"prologue", "body"}
    /\ steps - Len(decls) < MaxUses
    /\ \E i \in IriRefs :
          /\ last' = [rule |-> "IRIREF", text |-> i, res |-> IRIREF(base_iri, i)]
          /\ IF IsOk(IRIREF(base_iri, i))
             THEN pc' = "body" /\ error' = error
             ELSE Reject
    /\ steps' = steps + 1
    /\ UNCHANGED <<fvars, call, operations, base_iri, namespaces, decls>>
    /\ UNCHANGED <<uvars, bvars, avars, ctx>>

\* A prefixed name after the prologue.
UsePrefixedName(site) ==
    /\ pc \in {"prologue", "body"}
    /\ steps - Len(decls) < MaxUses
    /\ \E ns \in Prefixes, local \in Locals :
          LET r == IF site = "term" THEN Term(namespaces, ns, local)
                   ELSE Verb(namespaces, ns, local)
          IN  /\ last' = [rule |-> "PrefixedName", site |-> site, ns |-> ns,
                          local |-> local, lookup |-> PNAME_LN(namespaces, ns, local),
                          res |-> r.res, fallback |-> r.fallback,
                          object |-> r.object, accepted |-> Accepted(site, r)]
              /\ IF Accepted(site, r)
                 THEN pc' = "body" /\ error' = error
                 ELSE Reject
    /\ steps' = steps + 1
    /\ UNCHANGED <<fvars, call, operations, base_iri, namespaces, decls>>
    /\ UNCHANGED <<uvars, bvars, avars, ctx>>

\* The end of the text: the query or the update is returned.
ParseEnd ==
    /\ pc = "body" \/ (pc = "prologue" /\ call.fn = "parse_update")
    /\ pc' = "returned"
    /\ UNCHANGED <<fvars, call, error, operations, last, steps, base_iri, namespaces, decls>>
    /\ UNCHANGED <<uvars, bvars, avars, ctx>>

PrologueInit ==
    /\ args = <<>>
    /\ result = <<>>
    /\ NewState
    /\ call \in [fn : {"parse_query", "parse_update"}, base_iri : BaseArgs]
    /\ pc = "entry"
    /\ error = "none"
    /\ operations = <<>>
    /\ last = [rule |-> "none"]
    /\ steps = 0
    /\ input = <<>>
    /\ iter = <<>>
    /\ buffer = <<>>
    /\ output = <<>>
    /\ ustate = "call"

PrologueNext ==
    \/ parse_query
    \/ parse_update
    \/ BaseDecl
    \/ PrefixDecl
    \/ UseIriRef
    \/ UsePrefixedName("term")
    \/ UsePrefixedName("verb")
    \/ UsePrefixedName("verb-last")
    \/ ParseEnd

SpecPrologue == PrologueInit /\ [][PrologueNext]_vars

(***************************************************************************)
(* What the declarations of the prologue say, read off the history decls   *)
(***************************************************************************)
\* A reference resolved against a base in effect (an absolute reference
\* when there is none).
Resolved(base, text) ==
    IF base = None THEN text ELSE IriResolve(base[2], text)[2]

\* The base in effect after the first k declarations: the argument of the
\* call, then every BASE resolved against the base before it.
RECURSIVE BaseAfter(_)
BaseAfter(k) ==
    IF k = 0 THEN call.base_iri
    ELSE IF decls[k][1] = "BASE" THEN Some(Resolved(BaseAfter(k - 1), decls[k][2]))
    ELSE BaseAfter(k - 1)

\* The latest PREFIX declaration of ns, and the IRI it binds ns to.
LatestDecl(ns) ==
    CHOOSE k \in 1..Len(decls) :
        /\ decls[k][1] = "PREFIX" /\ decls[k][2] = ns
        /\ \A j \in (k + 1)..Len(decls) : ~(decls[j][1] = "PREFIX" /\ decls[j][2] = ns)

Declared(ns) == \E k \in 1..Len(decls) : decls[k][1] = "PREFIX" /\ decls[k][2] = ns

BoundIri(ns) == Resolved(BaseAfter(LatestDecl(ns) - 1), decls[LatestDecl(ns)][3])

InvalidBaseArg ==
    /\ call.base_iri # None
    /\ SchemeEnd(call.base_iri[2]) = 0 \/ ~IriRefOk(call.base_iri[2])

(***************************************************************************)
(* C4: ns:local, after PREFIX ns: <E>, is the IRI E followed by            *)
(* unescape_pn_local(local); the latest declaration of ns is the one used; *)
(* when ns was never declared the rule fails with "Prefix not found" and   *)
(* the parse is rejected.                                                  *)
(***************************************************************************)
C4_PrefixedNames ==
    last.rule = "PrefixedName" =>
        IF Declared(last.ns)
        THEN (last.local # <<>> /\ IsOk(last.lookup)) =>
                last.lookup = Ok(BoundIri(last.ns) \o unescape_pn_local(last.local))
        ELSE /\ last.lookup = Fail("Prefix not found")
             /\ pc = "returned"
             /\ error = "Parser"

(***************************************************************************)
(* C5: every <iri> is resolved against the base in effect when it is       *)
(* parsed: the IRI a PREFIX binds is not changed by a later BASE, a        *)
(* relative IRI in a BASE is resolved against the base before it, and      *)
(* without any base a relative IRI is rejected.                            *)
(***************************************************************************)
C5_BaseInEffect ==
    (pc # "entry" /\ error # "InvalidBaseIri") =>
        /\ base_iri = BaseAfter(Len(decls))
        /\ DOMAIN namespaces = {ns \in Prefixes : Declared(ns)}
        /\ \A ns \in DOMAIN namespaces : namespaces[ns] = BoundIri(ns)
        /\ last.rule \in {"IRIREF", "BaseDecl", "PrefixDecl"} =>
             LET before == IF last.rule = "IRIREF" \/ ~IsOk(last.res)
                           THEN BaseAfter(Len(decls))
                           ELSE BaseAfter(Len(decls) - 1)
             IN  IF ~IriRefOk(last.text) \/ (before = None /\ SchemeEnd(last.text) = 0)
                 THEN ~IsOk(last.res) /\ pc = "returned" /\ error = "Parser"
                 ELSE last.res = Ok(Resolved(before, last.text))

C5_Witness ==
    /\ call.base_iri = Some(<<LowerA, Colon, Slash>>)
    /\ decls = << <<"PREFIX", <<LowerB>>, <<LowerX, Slash>> >>,
                  <<"BASE", <<LowerB, Colon, Slash>> >> >>
    /\ namespaces[<<LowerB>>] = <<LowerA, Colon, Slash, LowerX, Slash>>
    /\ last.rule = "IRIREF"
    /\ last.text = <<LowerX, Slash>>
    /\ last.res = Ok(<<LowerB, Colon, Slash, LowerX, Slash>>)

(***************************************************************************)
(* C6: a base_iri argument that is not a valid absolute IRI makes          *)
(* parse_query and parse_update return InvalidBaseIri before the text is   *)
(* preprocessed or any rule of the grammar is tried, and InvalidBaseIri is *)
(* returned in no other situation.                                         *)
(***************************************************************************)
C6_InvalidBaseIri ==
    /\ (pc # "entry" /\ InvalidBaseArg) =>
            (pc = "returned" /\ error = "InvalidBaseIri")
    /\ error = "InvalidBaseIri" =>
            /\ InvalidBaseArg
            /\ pc = "returned"
            /\ ustate = "call"
            /\ steps = 0
            /\ last.rule = "none"
            /\ decls = <<>>

C6_Witness ==
    /\ call.fn = "parse_update"
    /\ call.base_iri = Some(<<LowerX, Slash>>)
    /\ pc = "returned"
    /\ error = "InvalidBaseIri"

(***************************************************************************)
(* Groups, sub-selects, blank-node labels and aggregates                   *)
(***************************************************************************)
\* The blank-node labels and the aggregates of the texts.
Labels == {"x", "y"}
Aggs   == {<<"Sum", "?x", FALSE>>,
           <<"Custom", "http://e/agg", "?x", FALSE>>,
           <<"Custom", "http://e/agg", "?x", TRUE>>}

\* The deepest nesting of queries and groups, and the most calls of variable().
MaxDepth == 3
MaxFresh == 3

\* One entry of ctx. t is "select" (a SELECT query or a sub-select), "plain"
\* (an ASK, CONSTRUCT or DESCRIBE query), "update" or "group" (a group graph
\* pattern whose content is being read); ph is how far the entry has been
\* read; role is what the entry is for the one below it: "top", the "where"
\* clause, or a "nested" pattern. seen holds the labels accepted directly in a
\* group, recent those accepted since a pattern nested in it last completed;
\* in a "select" entry seen holds the aggregates the Aggregate rule read
\* while this SELECT was the innermost one being read.
Frame(t, ph, role) ==
    [t |-> t, ph |-> ph, role |-> role, seen |-> {}, recent |-> {}]

Top == ctx[Len(ctx)]
Pop(c) == SubSeq(c, 1, Len(c) - 1)

\* ctx once the pattern of its top entry has been read completely.
Completed(c, role) ==
    IF Pop(c) = <<>> THEN <<>>
    ELSE LET rest == Pop(c)
             parent == rest[Len(rest)]
         IN  IF role = "where" THEN
                 [rest EXCEPT ![Len(rest)].ph =
                     IF parent.t = "update" THEN "between" ELSE "mods"]
             ELSE [rest EXCEPT ![Len(rest)].recent = {}]

\* Where a group graph pattern can start: the WHERE clause of a query or of
\* a DELETE/INSERT, a pattern nested in a group, or EXISTS in an expression.
PatternExpected(role) ==
    /\ pc = "body"
    /\ ctx # <<>>
    /\ Len(ctx) < MaxDepth
    /\ IF role = "where"
       THEN \/ Top.t = "select" /\ Top.ph = "list"
            \/ Top.t = "plain" /\ Top.ph = "start"
            \/ Top.t = "update" /\ Top.ph = "template"
       ELSE \/ Top.t = "group"
            \/ Top.t = "select" /\ Top.ph \in {"list", "mods"}
            \/ Top.t = "plain" /\ Top.ph = "mods"

\* The end of the action of GroupGraphPatternSub.
MergeBnodes(used, currently) ==
    [used |-> used \cup currently, currently |-> {}]

\* A collector pushed for the outermost SELECT only.
Selection_init_outermost(aggs) == IF aggs = <<>> THEN <<<<>>>> ELSE aggs

Selection_init(aggs) == Append(aggs, <<>>)

\* The SELECT a text belongs to: the innermost "select" entry of c, or 0.
InnermostSelect(c) ==
    LET selects == {k \in 1..Len(c) : c[k].t = "select"}
    IN  IF selects = {} THEN 0 ELSE CHOOSE k \in selects : \A j \in selects : j <= k

\* state.aggregates.pop().unwrap_or_else(Vec::default) of build_select.
KeepAggregates(aggs) == aggs

PopAggregates(aggs) == IF aggs = <<>> THEN aggs ELSE Pop(aggs)

BlankNodeOnce(used, currently, label) ==
    IF label \in used \cup currently
    THEN [res |-> Fail("Already used blank node id"), currently |-> currently]
    ELSE [res |-> Ok(label), currently |-> currently \cup {label}]

\* The first alternative of the BlankNode rule.
BlankNode(used, currently, label) ==
    IF label \in used
    THEN [res |-> Fail("Already used blank node id"), currently |-> currently]
    ELSE [res |-> Ok(label), currently |-> currently \cup {label}]

\* variable(): a variable with a random name, the (n + 1)-th of the parse.
variable(n) == <<"Fresh", n + 1>>

new_aggregation_push(aggs, agg, n) ==
    IF aggs = <<>> THEN
        [res |-> Fail("Unexpected aggregate"), aggregates |-> aggs, allocated |-> n]
    ELSE
        [res |-> Ok(variable(n)),
         aggregates |-> [aggs EXCEPT ![Len(aggs)] =
                            Append(aggs[Len(aggs)], <<variable(n), agg>>)],
         allocated |-> n + 1]

new_aggregation(aggs, agg, n) ==
    IF aggs = <<>> THEN
        [res |-> Fail("Unexpected aggregate"), aggregates |-> aggs, allocated |-> n]
    ELSE
        LET top == aggs[Len(aggs)]
            found == {i \in 1..Len(top) : top[i][2] = agg}
        IN  IF found # {} THEN
                [res |-> Ok(top[CHOOSE i \in found : \A j \in found : i <= j][1]),
                 aggregates |-> aggs, allocated |-> n]
            ELSE
                [res |-> Ok(variable(n)),
                 aggregates |-> [aggs EXCEPT ![Len(aggs)] =
                                    Append(top, <<variable(n), agg>>)],
                 allocated |-> n + 1]

IsCustom(agg) == agg[1] = "Custom"
IsDistinct(agg) == agg[Len(agg)]

\* What reads the text of an aggregate at a site. In a GROUP BY condition
\* ("groupcond") BuiltInCall, hence Aggregate, is tried first. In a
\* Constraint ("constraint": FILTER, HAVING, ORDER BY) FunctionCall is tried
\* before BuiltInCall and reads name(expr), but not name(DISTINCT expr).
\* In a PrimaryExpression ("expr") iriOrFunction is tried before BuiltInCall:
\* it reads name(expr), and of name(DISTINCT expr) the name only, after
\* which nothing can read "(DISTINCT" ("stuck").
ReadBy(site, agg) ==
    IF ~IsCustom(agg) \/ site = "groupcond" THEN "Aggregate"
    ELSE IF ~IsDistinct(agg) THEN "FunctionCall"
    ELSE IF site = "constraint" THEN "Aggregate"
    ELSE "stuck"

\* Whether an alternative after BuiltInCall reads the text: FunctionCall in
\* a GROUP BY condition.
ReadAfter(site, agg) == site = "groupcond" /\ IsCustom(agg) /\ ~IsDistinct(agg)

\* SelectClause of the query itself: Selection_init opens a collector.
SelectClause ==
    /\ pc = "body"
    /\ ctx # <<>>
    /\ Top.t = "select" /\ Top.ph = "start"
    /\ aggregates' = Selection_init(aggregates)
    /\ ctx' = [ctx EXCEPT ![Len(ctx)].ph = "list"]
    /\ last' = [rule |-> "SelectClause"]
    /\ UNCHANGED <<fvars, call, pc, error, operations, steps, allocated>>
    /\ UNCHANGED <<uvars, svars, bvars, decls>>

\* "{" at the start of a group graph pattern whose content is not a SELECT.
OpenGroup(role) ==
    /\ PatternExpected(role)
    /\ ctx' = Append(ctx, Frame("group", "content", role))
    /\ last' = [rule |-> "GroupGraphPattern"]
    /\ UNCHANGED <<fvars, call, pc, error, operations, steps>>
    /\ UNCHANGED <<uvars, svars, bvars, avars, decls>>

\* "{" followed by SELECT: the first alternative of GroupGraphPattern reads
\* an empty GroupGraphPatternSub, whose action runs, and fails on SELECT;
\* the second alternative then reads the SelectClause of the sub-select.
OpenSubSelect(role) ==
    /\ PatternExpected(role)
    /\ used_bnodes' = MergeBnodes(used_bnodes, currently_used_bnodes).used
    /\ currently_used_bnodes' =
            MergeBnodes(used_bnodes, currently_used_bnodes).currently
    /\ aggregates' = Selection_init(aggregates)
    /\ ctx' = Append(ctx, Frame("select", "list", role))
    /\ last' = [rule |-> "SubSelect"]
    /\ UNCHANGED <<fvars, call, pc, error, operations, steps, allocated, closed, shared>>
    /\ UNCHANGED <<uvars, svars, decls>>

\* The action of GroupGraphPatternSub, then "}".
GroupGraphPatternSub ==
    /\ pc = "body"
    /\ ctx # <<>>
    /\ Top.t = "group"
    /\ used_bnodes' = MergeBnodes(used_bnodes, currently_used_bnodes).used
    /\ currently_used_bnodes' =
            MergeBnodes(used_bnodes, currently_used_bnodes).currently
    /\ closed' = closed \cup Top.seen
    /\ shared' = shared
    /\ ctx' = Completed(ctx, Top.role)
    /\ last' = [rule |-> "GroupGraphPatternSub"]
    /\ UNCHANGED <<fvars, call, pc, error, operations, steps>>
    /\ UNCHANGED <<uvars, svars, avars, decls>>

\* build_select, called by the action of SelectQuery, SubSelect, AskQuery,
\* ConstructQuery and DescribeQuery once the solution modifiers are read.
build_select ==
    /\ pc = "body"
    /\ ctx # <<>>
    /\ Top.t \in {"select", "plain"} /\ Top.ph = "mods"
    /\ aggregates' = PopAggregates(aggregates)
    /\ ctx' = Completed(ctx, Top.role)
    /\ pc' = IF Top.role = "top" THEN "returned" ELSE pc
    /\ last' = [rule |-> "build_select", t |-> Top.t, owned |-> Top.seen,
                 popped |-> IF aggregates = <<>> THEN <<>>
                            ELSE aggregates[Len(aggregates)]]
    /\ UNCHANGED <<fvars, call, error, operations, steps, allocated>>
    /\ UNCHANGED <<uvars, svars, bvars, decls>>

\* Where a term of a triple can be read: in a group, in the template of an
\* INSERT clause and in the data of INSERT DATA.
TermExpected ==
    /\ pc = "body"
    /\ ctx # <<>>
    /\ \/ Top.t = "group"
       \/ Top.t = "update" /\ Top.ph \in {"template", "data"}

\* Whether the label was accepted in a group that has closed, or in a group
\* around the one being read.
InAnotherGroup(label) ==
    /\ Top.t = "group"
    /\ \/ label \in closed
       \/ \E k \in 1..(Len(ctx) - 1) : ctx[k].t = "group" /\ label \in ctx[k].seen

\* _:label as a term.
UseBlankNode ==
    /\ TermExpected
    /\ \E label \in Labels :
          LET r == BlankNode(used_bnodes, currently_used_bnodes, label)
          IN  /\ last' = [rule |-> "BlankNode", label |-> label, res |-> r.res,
                          in_group |-> Top.t = "group",
                          was_seen |-> label \in Top.seen,
                          was_recent |-> label \in Top.recent,
                          was_closed |-> label \in closed]
              /\ currently_used_bnodes' = r.currently
              /\ shared' = IF IsOk(r.res) /\ InAnotherGroup(label)
                            THEN shared \cup {label} ELSE shared
              /\ IF IsOk(r.res)
                 THEN /\ ctx' = [ctx EXCEPT
                                    ![Len(ctx)].seen = @ \cup {label},
                                    ![Len(ctx)].recent = @ \cup {label}]
                      /\ UNCHANGED <<pc, error>>
                 ELSE /\ Reject
                      /\ ctx' = ctx
    /\ UNCHANGED <<fvars, call, operations, steps, used_bnodes, closed>>
    /\ UNCHANGED <<uvars, svars, avars, decls>>

\* [] as a term: the second alternative of the BlankNode rule, bnode().
UseAnon ==
    /\ TermExpected
    /\ last' = [rule |-> "ANON"]
    /\ UNCHANGED <<fvars, call, pc, error, operations, steps, ctx>>
    /\ UNCHANGED <<uvars, svars, bvars, avars, decls>>

\* The start of a Modify operation (DELETE/INSERT ... WHERE): Modify_clear.
Modify_clear ==
    /\ pc = "body"
    /\ ctx # <<>>
    /\ Top.t = "update" /\ Top.ph = "between"
    /\ steps < MaxOps
    /\ used_bnodes' = {}
    /\ currently_used_bnodes' = {}
    /\ ctx' = [ctx EXCEPT ![Len(ctx)].ph = "template"]
    /\ steps' = steps + 1
    /\ last' = [rule |-> "Modify_clear"]
    /\ UNCHANGED <<fvars, call, pc, error, operations, closed, shared>>
    /\ UNCHANGED <<uvars, svars, avars, decls>>

\* INSERT DATA, up to the "{" of its QuadData, and the "}" that ends it.
InsertData ==
    /\ pc = "body"
    /\ ctx # <<>>
    /\ Top.t = "update"
    /\ IF Top.ph = "between"
       THEN /\ steps < MaxOps
            /\ steps' = steps + 1
            /\ ctx' = [ctx EXCEPT ![Len(ctx)].ph = "data"]
       ELSE /\ Top.ph = "data"
            /\ steps' = steps
            /\ ctx' = [ctx EXCEPT ![Len(ctx)].ph = "between"]
    /\ last' = [rule |-> "InsertData"]
    /\ UNCHANGED <<fvars, call, pc, error, operations>>
    /\ UNCHANGED <<uvars, svars, bvars, avars, decls>>

\* The end of an update request.
UpdateReturn ==
    /\ pc = "body"
    /\ ctx # <<>>
    /\ Top.t = "update" /\ Top.ph = "between"
    /\ pc' = "returned"
    /\ ctx' = <<>>
    /\ last' = [rule |-> "Update"]
    /\ UNCHANGED <<fvars, call, error, operations, steps>>
    /\ UNCHANGED <<uvars, svars, bvars, avars, decls>>

\* Where an expression can be read at a site: in the select list (an
\* expression in brackets), in the solution modifiers (GROUP BY, HAVING,
\* ORDER BY) and in the FILTER and BIND of a group.
ExpressionExpected(site) ==
    /\ pc = "body"
    /\ ctx # <<>>
    /\ \/ Top.t = "select" /\ Top.ph = "list" /\ site = "expr"
       \/ Top.t \in {"select", "plain"} /\ Top.ph = "mods"
       \/ Top.t = "group" /\ site \in {"constraint", "expr"}

\* The text of an aggregate in an expression.
UseAggregate(site) ==
    /\ ExpressionExpected(site)
    /\ allocated < MaxFresh
    /\ \E agg \in Aggs :
          LET r == new_aggregation(aggregates, agg, allocated)
              reached == ReadBy(site, agg) = "Aggregate"
              accepted == \/ ReadBy(site, agg) = "FunctionCall"
                          \/ reached /\ (IsOk(r.res) \/ ReadAfter(site, agg))
          IN  /\ last' = [rule |-> "Aggregate", site |-> site, agg |-> agg,
                          reached |-> reached,
                          res |-> IF reached THEN r.res ELSE Fail("not called"),
                          empty |-> aggregates = <<>>,
                          existed |-> /\ aggregates # <<>>
                                      /\ \E i \in 1..Len(aggregates[Len(aggregates)]) :
                                            aggregates[Len(aggregates)][i][2] = agg,
                          before |-> IF aggregates = <<>> THEN 0
                                     ELSE Len(aggregates[Len(aggregates)])]
              /\ IF reached /\ IsOk(r.res)
                 THEN aggregates' = r.aggregates /\ allocated' = r.allocated
                 ELSE UNCHANGED <<aggregates, allocated>>
              /\ IF accepted THEN UNCHANGED <<pc, error>> ELSE Reject
              /\ ctx' = IF reached /\ InnermostSelect(ctx) # 0
                         THEN [ctx EXCEPT ![InnermostSelect(ctx)].seen = @ \cup {agg}]
                         ELSE ctx
    /\ UNCHANGED <<fvars, call, operations, steps>>
    /\ UNCHANGED <<uvars, svars, bvars, decls>>

\* The grammar at the start of a query or of the operations of an update,
\* after a prologue without declarations.
GroupsInit ==
    /\ args = <<>>
    /\ result = <<>>
    /\ UnescapeDone
    /\ base_iri = None
    /\ namespaces = [ns \in {} |-> <<>>]
    /\ used_bnodes = {}
    /\ currently_used_bnodes = {}
    /\ aggregates = <<>>
    /\ allocated = 0
    /\ decls = <<>>
    /\ closed = {}
    /\ shared = {}
    /\ \E t \in {"select", "plain", "update"} :
          /\ ctx = <<Frame(t, IF t = "update" THEN "between" ELSE "start", "top")>>
          /\ call = [fn |-> IF t = "update" THEN "parse_update" ELSE "parse_query",
                     base_iri |-> None]
    /\ pc = "body"
    /\ error = "none"
    /\ operations = <<>>
    /\ last = [rule |-> "none"]
    /\ steps = 0

Structure ==
    \/ SelectClause
    \/ OpenGroup("where")
    \/ OpenGroup("nested")
    \/ OpenSubSelect("where")
    \/ OpenSubSelect("nested")
    \/ GroupGraphPatternSub
    \/ build_select
    \/ Modify_clear
    \/ UpdateReturn

BnodesNext ==
    \/ Structure
    \/ InsertData
    \/ UseBlankNode
    \/ UseAnon

AggregatesNext ==
    \/ Structure
    \/ UseAggregate("expr")
    \/ UseAggregate("constraint")
    \/ UseAggregate("groupcond")

SpecBnodes == GroupsInit /\ [][BnodesNext]_vars

SpecAggregates == GroupsInit /\ [][AggregatesNext]_vars

(***************************************************************************)
(* C2: a label used in a group graph pattern that has closed cannot be     *)
(* introduced again in a later group: the BlankNode rule fails and the     *)
(* parse ends in an error; [] is never checked.                            *)
(***************************************************************************)
C2_ClosedLabelRejected ==
    /\ (last.rule = "BlankNode" /\ last.in_group /\ last.was_closed) =>
            (~IsOk(last.res) /\ pc = "returned" /\ error = "Parser")
    /\ last.rule = "ANON" => error = "none"

C7_OneEntryPerAggregate ==
    /\ \A k \in 1..Len(aggregates) :
          \A i, j \in 1..Len(aggregates[k]) :
              i # j => /\ aggregates[k][i][2] # aggregates[k][j][2]
                       /\ aggregates[k][i][1] # aggregates[k][j][1]
    /\ (last.rule = "Aggregate" /\ last.reached /\ last.existed) =>
          /\ IsOk(last.res)
          /\ Len(aggregates[Len(aggregates)]) = last.before
          /\ \E i \in 1..Len(aggregates[Len(aggregates)]) :
                aggregates[Len(aggregates)][i] = <<last.res[2], last.agg>>

C7_Witness ==
    /\ last.rule = "Aggregate"
    /\ last.reached
    /\ last.existed
    /\ last.before = 2
    /\ last.agg = <<"Sum", "?x", FALSE>>
    /\ Len(aggregates) = 2

(***************************************************************************)
(* C8 as stated: an aggregate read while the aggregate stack is empty is   *)
(* an error.                                                               *)
(***************************************************************************)
C8_AggregateOutsideSelect ==
    (last.rule = "Aggregate" /\ last.reached /\ last.empty) =>
        (pc = "returned" /\ error = "Parser")

(***************************************************************************)
(* C8 amended: an aggregate read while the aggregate stack is empty, also  *)
(* after sub-selects were opened and completed, is an error when it is a   *)
(* built-in aggregate or has DISTINCT; name(expr) without DISTINCT in a     *)
(* GROUP BY condition is read again as a function call and accepted. The   *)
(* stack is empty exactly when no SELECT is open.                          *)
(***************************************************************************)
C8_BuiltInOutsideSelect ==
    /\ (last.rule = "Aggregate" /\ last.reached /\ last.empty) =>
          /\ last.res = Fail("Unexpected aggregate")
          /\ IF IsCustom(last.agg) /\ ~IsDistinct(last.agg) /\ last.site = "groupcond"
             THEN error = "none"
             ELSE pc = "returned" /\ error = "Parser"
    /\ error = "none" =>
          Len(aggregates) =
              Cardinality({k \in 1..Len(ctx) :
                              ctx[k].t = "select" /\ ctx[k].ph # "start"})

C8_Witness ==
    /\ last.rule = "Aggregate"
    /\ last.reached
    /\ last.empty
    /\ last.agg = <<"Sum", "?x", FALSE>>
    /\ allocated > 0
    /\ ctx # <<>>
    /\ ctx[1].t = "plain" /\ ctx[1].ph = "mods"
    /\ error = "Parser"

(***************************************************************************)
(* new_join: the join of two graph patterns                                *)
(***************************************************************************)
Join(left, right) == [t |-> "Join", left |-> left, right |-> right]
Path(s, path, o) == [t |-> "Path", subject |-> s, path |-> path, object |-> o]

RECURSIVE new_join(_, _)

\* new_join without its second test: an empty BGP on the right is joined.
new_join_left_identity(l, r) ==
    IF l.t = "Bgp" /\ l.patterns = <<>> THEN r
    ELSE IF l.t = "Bgp" /\ r.t = "Bgp" THEN Bgp(l.patterns \o r.patterns)
    ELSE IF l.t = "Graph" /\ r.t = "Graph" /\ l.graph_name = r.graph_name
         THEN Graph(l.graph_name, new_join(l.inner, r.inner))
    ELSE Join(l, r)

\* new_join merging two Graph patterns of one name into the left one only.
new_join_keep_left(l, r) ==
    IF l.t = "Bgp" /\ l.patterns = <<>> THEN r
    ELSE IF r.t = "Bgp" /\ r.patterns = <<>> THEN l
    ELSE IF l.t = "Bgp" /\ r.t = "Bgp" THEN Bgp(l.patterns \o r.patterns)
    ELSE IF l.t = "Graph" /\ r.t = "Graph" /\ l.graph_name = r.graph_name
         THEN Graph(l.graph_name, l.inner)
    ELSE Join(l, r)

\* new_join putting the triples of the right BGP first.
new_join_right_first(l, r) ==
    IF l.t = "Bgp" /\ l.patterns = <<>> THEN r
    ELSE IF r.t = "Bgp" /\ r.patterns = <<>> THEN l
    ELSE IF l.t = "Bgp" /\ r.t = "Bgp" THEN Bgp(r.patterns \o l.patterns)
    ELSE IF l.t = "Graph" /\ r.t = "Graph" /\ l.graph_name = r.graph_name
         THEN Graph(l.graph_name, new_join(l.inner, r.inner))
    ELSE Join(l, r)

new_join(l, r) ==
    IF l.t = "Bgp" /\ l.patterns = <<>> THEN r
    ELSE IF r.t = "Bgp" /\ r.patterns = <<>> THEN l
    ELSE IF l.t = "Bgp" /\ r.t = "Bgp" THEN Bgp(l.patterns \o r.patterns)
    ELSE IF l.t = "Graph" /\ r.t = "Graph" /\ l.graph_name = r.graph_name
         THEN Graph(l.graph_name, new_join(l.inner, r.inner))
    ELSE Join(l, r)

\* The graph patterns new_join is called with: BGPs (the empty one among
\* them), a Path, Graph patterns over two names, and Join nodes as new_join,
\* the only function that builds them, returns them.
JoinLeaves ==
    {Bgp(<<>>),
     Bgp(<<TriplePattern(Variable("s"), NamedNode("http://e/p"), Variable("o"))>>),
     Bgp(<<TriplePattern(Variable("o"), NamedNode("http://e/q"), Variable("s"))>>),
     Path(Variable("s"), <<"ZeroOrMore", NamedNode("http://e/p")>>, Variable("o"))}
JoinOperands ==
    LET named == {NamedNode("http://e/g1"), Variable("g")}
        some  == {q \in JoinLeaves : q.t = "Path" \/ Len(q.patterns) = 1}
    IN  JoinLeaves
        \cup {Graph(g, q) : g \in named, q \in JoinLeaves}
        \cup {Join(xy[1], xy[2]) :
                xy \in {p \in some \X some : p[1].t # "Bgp" \/ p[2].t # "Bgp"}}

\* The three patterns a, b and c to join, and nothing joined yet.
JoinInit ==
    /\ UnescapeDone
    /\ ParserIdle
    /\ args \in JoinOperands \X JoinOperands \X JoinOperands
    /\ result = [ab |-> None, left |-> None, bc |-> None, right |-> None]

\* new_join(a, b), then new_join of its result with c, as the fold of
\* GroupGraphPatternSub does for three successive elements of a group.
JoinLeftFirst ==
    /\ result.left = None
    /\ LET ab == new_join(args[1], args[2])
       IN  result' = [result EXCEPT !.ab = Some(ab),
                                    !.left = Some(new_join(ab, args[3]))]
    /\ UNCHANGED <<args, uvars, gvars, svars, bvars, avars, ctx, decls>>

\* new_join(b, c), then new_join of a with its result, as when b and c are
\* the elements of a part of the group that is built before a is joined.
JoinRightFirst ==
    /\ result.right = None
    /\ LET bc == new_join(args[2], args[3])
       IN  result' = [result EXCEPT !.bc = Some(bc),
                                    !.right = Some(new_join(args[1], bc))]
    /\ UNCHANGED <<args, uvars, gvars, svars, bvars, avars, ctx, decls>>

JoinNext == JoinLeftFirst \/ JoinRightFirst

SpecJoin == JoinInit /\ [][JoinNext]_vars

(***************************************************************************)
(* C13: the empty BGP is a two-sided identity of new_join: new_join of the *)
(* empty BGP and p, and of p and the empty BGP, is p for every graph       *)
(* pattern p, and new_join never returns a Join node one of whose sides is *)
(* an empty BGP argument.                                                  *)
(***************************************************************************)
IdentityOf(l, r, joined) ==
    /\ l = Bgp(<<>>) => joined = r
    /\ r = Bgp(<<>>) => joined = l
    /\ (l = Bgp(<<>>) \/ r = Bgp(<<>>)) => joined # Join(l, r)

C13_EmptyBgpIdentity ==
    /\ result.ab # None => IdentityOf(args[1], args[2], result.ab[2])
    /\ result.bc # None => IdentityOf(args[2], args[3], result.bc[2])
    /\ result.left # None => IdentityOf(result.ab[2], args[3], result.left[2])
    /\ result.right # None => IdentityOf(args[1], result.bc[2], result.right[2])

C13_Witness ==
    /\ args[1] = Bgp(<<>>)
    /\ args[2].t = "Graph"
    /\ args[3] = Bgp(<<>>)
    /\ result.left = Some(args[2])
    /\ result.right = Some(args[2])

(***************************************************************************)
(* C14 as stated: new_join(new_join(a, b), c) and new_join(a, new_join(b,  *)
(* c)) have the same sequence of joined leaf patterns once nested Join     *)
(* nodes are flattened and adjacent BGPs concatenated.                     *)
(***************************************************************************)
RECURSIVE JoinedLeaves(_)
JoinedLeaves(p) ==
    IF p.t = "Join" THEN JoinedLeaves(p.left) \o JoinedLeaves(p.right) ELSE <<p>>

RECURSIVE ConcatBgps(_)
ConcatBgps(s) ==
    IF Len(s) < 2 THEN s
    ELSE IF s[1].t = "Bgp" /\ s[2].t = "Bgp"
    THEN ConcatBgps(<<Bgp(s[1].patterns \o s[2].patterns)>> \o Tail(Tail(s)))
    ELSE <<s[1]>> \o ConcatBgps(Tail(s))

C14_SameLeaves ==
    (result.left # None /\ result.right # None) =>
        ConcatBgps(JoinedLeaves(result.left[2]))
            = ConcatBgps(JoinedLeaves(result.right[2]))

(***************************************************************************)
(* C14 as amended: the two have the same sequence of joined leaf patterns  *)
(* once nested Join nodes are flattened, empty BGPs dropped, adjacent BGPs *)
(* concatenated and adjacent Graph patterns over one name merged into one  *)
(* Graph pattern over the join of their inner patterns, the inner patterns *)
(* being compared in the same way.                                         *)
(***************************************************************************)
RECURSIVE MergeAdjacent(_)
MergeAdjacent(s) ==
    IF Len(s) < 2 THEN s
    ELSE IF s[1].t = "Bgp" /\ s[2].t = "Bgp"
    THEN MergeAdjacent(<<Bgp(s[1].patterns \o s[2].patterns)>> \o Tail(Tail(s)))
    ELSE IF s[1].t = "Graph" /\ s[2].t = "Graph" /\ s[1].graph_name = s[2].graph_name
    THEN MergeAdjacent(<<Graph(s[1].graph_name, MergeAdjacent(s[1].inner \o s[2].inner))>>
                       \o Tail(Tail(s)))
    ELSE <<s[1]>> \o MergeAdjacent(Tail(s))

RECURSIVE JoinOf(_)
JoinOf(p) ==
    IF p.t = "Join" THEN MergeAdjacent(JoinOf(p.left) \o JoinOf(p.right))
    ELSE IF p.t = "Bgp" THEN (IF p.patterns = <<>> THEN <<>> ELSE <<p>>)
    ELSE IF p.t = "Graph" THEN <<Graph(p.graph_name, JoinOf(p.inner))>>
    ELSE <<p>>

C14_SameJoin ==
    (result.left # None /\ result.right # None) =>
        JoinOf(result.left[2]) = JoinOf(result.right[2])

C14_Witness ==
    /\ args[1].t = "Path"
    /\ args[2] = Graph(Variable("g"), Bgp(<<>>))
    /\ args[3].t = "Graph" /\ args[3].graph_name = Variable("g") /\ args[3].inner.t = "Path"
    /\ result.left # None /\ result.right # None
    /\ result.left # result.right

(***************************************************************************)
(* DELETE DATA, DELETE WHERE and DELETE ... WHERE: the quads of an update  *)
(***************************************************************************)
\* _:label as a term, and bnode(): a blank node with a random identifier,
\* the (n + 1)-th of the parse.
LabelledNode(label) == <<"BlankNode", "label", label>>
bnode(n) == <<"BlankNode", "random", n + 1>>

HasBlankNode(q) ==
    \E term \in {q.subject, q.predicate, q.object, q.graph_name} : term[1] = "BlankNode"
HasVariable(q) ==
    \E term \in {q.subject, q.predicate, q.object, q.graph_name} : term[1] = "Variable"

\* The conversions between the kinds of quads: a GroundQuadPattern holds no
\* blank node, a Quad no variable, a GroundQuad neither.
GroundQuadPattern_try_from(q) == IF HasBlankNode(q) THEN Err ELSE Ok(q)
Quad_try_from(q) == IF HasVariable(q) THEN Err ELSE Ok(q)
GroundQuad_try_from(q) == IF HasBlankNode(q) THEN Err ELSE Ok(q)

\* .collect::<Result<Vec<_>, _>>() on the results of a .map(f)
Collect(results) ==
    IF \A k \in 1..Len(results) : IsOk(results[k])
    THEN Ok([k \in 1..Len(results) |-> results[k][2]])
    ELSE Err

GroundQuadData(q) ==
    LET ground(quad) == IF IsOk(Quad_try_from(quad))
                        THEN GroundQuad_try_from(Quad_try_from(quad)[2])
                        ELSE Err
        data == Collect([k \in 1..Len(q) |-> ground(q[k])])
    IN  IF IsOk(data) THEN data
        ELSE Fail("Variables and blank nodes are not allowed in DELETE DATA")

DeleteData(q) ==
    LET data == GroundQuadData(q)
    IN  IF IsOk(data) THEN Ok(<<[op |-> "DeleteData", data |-> data[2]]>>) ELSE data

DeleteClauseUnchecked(q) == Ok(q)

DeleteClause(q) ==
    LET delete == Collect([k \in 1..Len(q) |-> GroundQuadPattern_try_from(q[k])])
    IN  IF IsOk(delete) THEN delete
        ELSE Fail("Blank nodes are not allowed in DELETE WHERE")

\* The pattern of DELETE WHERE: the quads, each as a BGP of one triple inside
\* its graph, folded with new_join from the empty BGP.
RECURSIVE DeleteWherePattern(_, _)
DeleteWherePattern(d, acc) ==
    IF d = <<>> THEN acc
    ELSE LET q == Head(d)
             bgp == Bgp(<<TriplePattern(q.subject, q.predicate, q.object)>>)
         IN  DeleteWherePattern(Tail(d),
                 new_join(acc, IF q.graph_name = DefaultGraph THEN bgp
                                ELSE Graph(q.graph_name, bgp)))

DeleteWhereUnchecked(d) ==
    Ok(<<[op |-> "DeleteInsert", delete |-> d, insert |-> <<>>, using |-> None,
          pattern |-> DeleteWherePattern(d, Bgp(<<>>))]>>)

DeleteWhere(d) ==
    LET pattern == DeleteWherePattern(d, Bgp(<<>>))
        delete == Collect([k \in 1..Len(d) |-> GroundQuadPattern_try_from(d[k])])
    IN  IF IsOk(delete)
        THEN Ok(<<[op |-> "DeleteInsert", delete |-> delete[2], insert |-> <<>>,
                   using |-> None, pattern |-> pattern]>>)
        ELSE Fail("Blank nodes are not allowed in DELETE WHERE")

\* The default graphs (which = 1) or the named graphs (which = 2) of the
\* USING clauses u, in their order.
RECURSIVE UsingGraphs(_, _)
UsingGraphs(u, which) ==
    IF u = <<>> THEN <<>>
    ELSE (IF Head(u)[which] = None THEN <<>> ELSE <<Head(u)[which][2]>>)
         \o UsingGraphs(Tail(u), which)

\* Modify injecting the graph of WITH into every quad.
Modify_inject_all(with, c, u, pattern) ==
    LET inject(q) == [q EXCEPT !.graph_name = with[2]]
        delete == IF c[1] = None THEN <<>> ELSE c[1][2]
        insert == IF c[2] = None THEN <<>> ELSE c[2][2]
        using == IF u = <<>> THEN None
                 ELSE Some([default |-> UsingGraphs(u, 1),
                            named |-> Some(UsingGraphs(u, 2))])
    IN  <<[op |-> "DeleteInsert",
           delete |-> IF with = None THEN delete
                      ELSE [k \in 1..Len(delete) |-> inject(delete[k])],
           insert |-> IF with = None THEN insert
                      ELSE [k \in 1..Len(insert) |-> inject(insert[k])],
           using |-> IF with # None /\ using = None
                     THEN Some([default |-> <<with[2]>>, named |-> None])
                     ELSE using,
           pattern |-> pattern]>>

\* The action of Modify: with is the graph of WITH or None, c the pair of
\* Modify_clauses (the DELETE template or None, the INSERT template or None),
\* u the pairs of the USING clauses, pattern the WHERE pattern.
Modify(with, c, u, pattern) ==
    LET inject(q) == IF q.graph_name = DefaultGraph
                     THEN [q EXCEPT !.graph_name = with[2]] ELSE q
        delete == IF c[1] = None THEN <<>> ELSE c[1][2]
        insert == IF c[2] = None THEN <<>> ELSE c[2][2]
        using == IF u = <<>> THEN None
                 ELSE Some([default |-> UsingGraphs(u, 1),
                            named |-> Some(UsingGraphs(u, 2))])
    IN  <<[op |-> "DeleteInsert",
           delete |-> IF with = None THEN delete
                      ELSE [k \in 1..Len(delete) |-> inject(delete[k])],
           insert |-> IF with = None THEN insert
                      ELSE [k \in 1..Len(insert) |-> inject(insert[k])],
           using |-> IF with # None /\ using = None
                     THEN Some([default |-> <<with[2]>>, named |-> None])
                     ELSE using,
           pattern |-> pattern]>>

\* The most quads in the operations of one request.
MaxQuads == 2

\* No operation is being read.
NoQuads == [rule |-> "none", with |-> None, quads |-> <<>>]

\* VarOrTerm at the subject or the object of a triple of the quads: an IRI,
\* a variable, _:x through the BlankNode rule, or [] through bnode().
VarOrTerm(kind, used, currently, n) ==
    IF kind = "iri"
    THEN [res |-> Ok(NamedNode("http://e/s")), currently |-> currently, allocated |-> n]
    ELSE IF kind = "var"
    THEN [res |-> Ok(Variable("s")), currently |-> currently, allocated |-> n]
    ELSE IF kind = "label"
    THEN LET r == BlankNode(used, currently, "x")
         IN  [res |-> IF IsOk(r.res) THEN Ok(LabelledNode(r.res[2])) ELSE r.res,
              currently |-> r.currently, allocated |-> n]
    ELSE [res |-> Ok(bnode(n)), currently |-> currently, allocated |-> n + 1]

\* Update1 up to the "{" of the quads: the keywords choose the rule, and
\* Modify runs Modify_with and Modify_clear first.
BeginQuads(rule) ==
    /\ pc = "body"
    /\ args.rule = "none"
    /\ Len(operations) < MaxOps
    /\ \E with \in IF rule = "Modify" THEN {None, Some(NamedNode("http://e/g1"))}
                   ELSE {None} :
          args' = [rule |-> rule, with |-> with, quads |-> <<>>]
    /\ IF rule = "Modify"
       THEN used_bnodes' = {} /\ currently_used_bnodes' = {}
       ELSE UNCHANGED <<used_bnodes, currently_used_bnodes>>
    /\ last' = [rule |-> "Update1", of |-> rule]
    /\ UNCHANGED <<result, call, pc, error, operations, steps, closed, shared>>
    /\ UNCHANGED <<uvars, svars, avars, ctx, decls>>

\* Quads: one more triple of the quads, in the default graph or in GRAPH ?g.
ReadQuad ==
    /\ pc = "body"
    /\ args.rule # "none"
    /\ steps < MaxQuads
    /\ \E sk \in {"iri", "var", "label", "anon"}, ok \in {"iri", "label"},
          g \in {DefaultGraph, Variable("g")} :
          LET s == VarOrTerm(sk, used_bnodes, currently_used_bnodes, allocated)
              o == VarOrTerm(ok, used_bnodes, s.currently, s.allocated)
          IN  IF IsOk(s.res) /\ IsOk(o.res)
              THEN /\ args' = [args EXCEPT !.quads = Append(@,
                                  QuadPattern(s.res[2], NamedNode("http://e/p"), o.res[2], g))]
                   /\ currently_used_bnodes' = o.currently
                   /\ allocated' = o.allocated
                   /\ last' = [rule |-> "Quads", of |-> args.rule, res |-> Ok(g)]
                   /\ UNCHANGED <<pc, error>>
              ELSE /\ last' = [rule |-> "Quads", of |-> args.rule,
                               res |-> IF IsOk(s.res) THEN o.res ELSE s.res]
                   /\ currently_used_bnodes' = s.currently
                   /\ allocated' = s.allocated
                   /\ Reject
                   /\ args' = args
    /\ steps' = steps + 1
    /\ UNCHANGED <<result, call, operations, used_bnodes, closed, shared, aggregates>>
    /\ UNCHANGED <<uvars, svars, ctx, decls>>

\* The "}" of the quads and the action of the rule, whose result r is.
EndQuads(r) ==
    /\ last' = [rule |-> args.rule, with |-> args.with, quads |-> args.quads,
                res |-> r, before |-> operations]
    /\ IF IsOk(r) THEN operations' = operations \o r[2] /\ UNCHANGED <<pc, error>>
       ELSE operations' = operations /\ Reject
    /\ args' = NoQuads
    /\ UNCHANGED <<result, call, steps>>
    /\ UNCHANGED <<uvars, svars, avars, ctx, decls>>

EndDeleteData ==
    /\ pc = "body"
    /\ args.rule = "DeleteData"
    /\ EndQuads(DeleteData(args.quads))
    /\ UNCHANGED bvars

\* When DeleteWhere fails, Update1 tries Modify, which fails at WHERE after
\* Modify_clear has run.
EndDeleteWhere ==
    /\ pc = "body"
    /\ args.rule = "DeleteWhere"
    /\ LET r == DeleteWhere(args.quads)
       IN  /\ EndQuads(r)
           /\ IF IsOk(r) THEN UNCHANGED <<used_bnodes, currently_used_bnodes>>
              ELSE used_bnodes' = {} /\ currently_used_bnodes' = {}
    /\ closed' = closed
    /\ shared' = shared

\* The rest of Modify: the action of DeleteClause, then WHERE and a group
\* that uses the labels w and closes.
EndModify ==
    /\ pc = "body"
    /\ args.rule = "Modify"
    /\ LET c == DeleteClause(args.quads)
       IN  IF ~IsOk(c)
           THEN EndQuads(c) /\ UNCHANGED bvars
           ELSE \E w \in {{}, {"x"}} :
                  IF w \cap used_bnodes # {}
                  THEN EndQuads(Fail("Already used blank node id")) /\ UNCHANGED bvars
                  ELSE /\ EndQuads(Ok(Modify(args.with, <<c, None>>, <<>>,
                              Bgp(<<TriplePattern(
                                  IF w = {} THEN Variable("s") ELSE LabelledNode("x"),
                                  NamedNode("http://e/p"), Variable("o"))>>))))
                       /\ used_bnodes' = used_bnodes \cup currently_used_bnodes \cup w
                       /\ currently_used_bnodes' = {}
                       /\ closed' = closed \cup w
                       /\ shared' = shared

QuadsReturn ==
    /\ pc = "body"
    /\ args.rule = "none"
    /\ pc' = "returned"
    /\ last' = [rule |-> "Update"]
    /\ UNCHANGED <<fvars, call, error, operations, steps>>
    /\ UNCHANGED <<uvars, svars, bvars, avars, ctx, decls>>

QuadsInit ==
    /\ UnescapeDone
    /\ NewState
    /\ call = [fn |-> "parse_update", base_iri |-> None]
    /\ pc = "body"
    /\ error = "none"
    /\ operations = <<>>
    /\ last = [rule |-> "none"]
    /\ steps = 0
    /\ args = NoQuads
    /\ result = <<>>

QuadsNext ==
    \/ BeginQuads("DeleteData")
    \/ BeginQuads("DeleteWhere")
    \/ BeginQuads("Modify")
    \/ ReadQuad
    \/ EndDeleteData
    \/ EndDeleteWhere
    \/ EndModify
    \/ QuadsReturn

SpecQuads == QuadsInit /\ [][QuadsNext]_vars

BlankNodeIn(quads) == \E k \in 1..Len(quads) : HasBlankNode(quads[k])
VariableIn(quads) == \E k \in 1..Len(quads) : HasVariable(quads[k])

\* What DELETE WHERE yields, from the quads q read and the operations before.
DeleteWhereYields ==
    last.rule = "DeleteWhere" =>
        IF BlankNodeIn(last.quads)
        THEN /\ last.res = Fail("Blank nodes are not allowed in DELETE WHERE")
             /\ pc = "returned" /\ error = "Parser"
             /\ operations = last.before
        ELSE /\ IsOk(last.res)
             /\ Len(last.res[2]) = 1
             /\ last.res[2][1].op = "DeleteInsert"
             /\ last.res[2][1].delete = last.quads
             /\ last.res[2][1].insert = <<>>
             /\ last.res[2][1].using = None
             /\ operations = Append(last.before, last.res[2][1])
             /\ error = "none"

(***************************************************************************)
(* C11 as stated: DELETE WHERE whose quads contain a blank node (labelled  *)
(* or anonymous) in any position is rejected with "Blank nodes are not     *)
(* allowed in DELETE WHERE" and yields no operation; without blank nodes   *)
(* it yields exactly one DeleteInsert whose delete template equals the     *)
(* quads in order, whose insert is empty and whose using is absent.        *)
(***************************************************************************)
C11_DeleteWhereMessage ==
    /\ DeleteWhereYields
    /\ (last.rule = "Quads" /\ last.of = "DeleteWhere" /\ error = "Parser") =>
           last.res = Fail("Blank nodes are not allowed in DELETE WHERE")

(***************************************************************************)
(* C11 as amended: such a DELETE WHERE is rejected and yields no           *)
(* operation; the message is "Blank nodes are not allowed in DELETE WHERE" *)
(* unless a labelled blank node of the quads is in used_bnodes, where the  *)
(* BlankNode rule fails first with "Already used blank node id". Without   *)
(* blank nodes it yields exactly one DeleteInsert, as stated.              *)
(***************************************************************************)
C11_DeleteWhere ==
    /\ DeleteWhereYields
    /\ (last.rule = "Quads" /\ last.of = "DeleteWhere" /\ ~IsOk(last.res)) =>
           /\ last.res = Fail("Already used blank node id")
           /\ "x" \in used_bnodes
           /\ pc = "returned" /\ error = "Parser"

C11_Witness ==
    /\ last.rule = "DeleteWhere"
    /\ Len(last.quads) = 2
    /\ last.quads[1].subject = Variable("s")
    /\ last.quads[1].graph_name = Variable("g")
    /\ last.quads[2].object = LabelledNode("x")
    /\ Len(operations) = 1
    /\ error = "Parser"

UsizeMax == 15
MaxDigits == 2

\* INTEGER: one or more decimal digits, and nothing else up to the next token.
INTEGER(text) == text # <<>> /\ \A k \in 1..Len(text) : text[k] \in Zero..(Zero + 9)

\* usize::from_str on a text of digits: None when the value overflows.
RECURSIVE checked_digits(_, _)
checked_digits(text, acc) ==
    IF text = <<>> THEN Some(acc)
    ELSE LET v == acc * 10 + (Head(text) - Zero)
         IN  IF v > UsizeMax THEN None ELSE checked_digits(Tail(text), v)

\* usize::from_str wrapping on overflow instead of failing.
usize_from_str_wrapping(text) ==
    IF text = <<>> THEN Err
    ELSE LET RECURSIVE wrapping_digits(_, _)
             wrapping_digits(t, acc) ==
                 IF t = <<>> THEN acc
                 ELSE wrapping_digits(Tail(t), (acc * 10 + (Head(t) - Zero)) % (UsizeMax + 1))
         IN  Ok(wrapping_digits(text, 0))

usize_from_str(text) ==
    IF text = <<>> THEN Err
    ELSE LET v == checked_digits(text, 0) IN IF v = None THEN Err ELSE Ok(v[2])

LimitClause(text) ==
    IF ~INTEGER(text) THEN Err
    ELSE IF IsOk(usize_from_str(text)) THEN usize_from_str(text)
    ELSE Fail("The query limit should be a non negative integer")

OffsetClause(text) ==
    IF ~INTEGER(text) THEN Err
    ELSE IF IsOk(usize_from_str(text)) THEN usize_from_str(text)
    ELSE Fail("The query offset should be a non negative integer")

\* LimitOffsetClauses on the text "LIMIT limit OFFSET offset" (first =
\* "LIMIT") or "OFFSET offset LIMIT limit"; the second clause is None when
\* it is not written. An optional second clause that fails leaves its text
\* unread, and the query is rejected.
LimitOffsetClauses(first, limit, offset) ==
    IF first = "LIMIT"
    THEN LET l == LimitClause(limit[2])
         IN  IF ~IsOk(l) THEN l
             ELSE IF offset = None THEN Ok(<<0, Some(l[2])>>)
             ELSE LET o == OffsetClause(offset[2])
                  IN  IF IsOk(o) THEN Ok(<<o[2], Some(l[2])>>) ELSE o
    ELSE LET o == OffsetClause(offset[2])
         IN  IF ~IsOk(o) THEN o
             ELSE IF limit = None THEN Ok(<<o[2], None>>)
             ELSE LET l == LimitClause(limit[2])
                  IN  IF IsOk(l) THEN Ok(<<o[2], Some(l[2])>>) ELSE l

\* The most items of a collection.
MaxItems == 3

RdfFirst == NamedNode("http://www.w3.org/1999/02/22-rdf-syntax-ns#first")
RdfRest == NamedNode("http://www.w3.org/1999/02/22-rdf-syntax-ns#rest")
RdfNil == NamedNode("http://www.w3.org/1999/02/22-rdf-syntax-ns#nil")

\* Collection without .rev(): the items are chained from the first one.
CollectionForward(o, n) ==
    LET RECURSIVE chain(_, _, _, _)
        chain(k, current_list_node, patterns, m) ==
            IF k > Len(o)
            THEN [focus |-> current_list_node, patterns |-> patterns, allocated |-> m]
            ELSE chain(k + 1, bnode(m),
                       patterns \o <<TriplePattern(bnode(m), RdfFirst, o[k].focus),
                                     TriplePattern(bnode(m), RdfRest, current_list_node)>>
                                \o o[k].patterns,
                       m + 1)
    IN  chain(1, RdfNil, <<>>, n)

\* The action of Collection and of CollectionPath on the items o, after n
\* calls of bnode(): the items are taken from the last one.
Collection(o, n) ==
    LET RECURSIVE chain(_, _, _, _)
        chain(k, current_list_node, patterns, m) ==
            IF k = 0
            THEN [focus |-> current_list_node, patterns |-> patterns, allocated |-> m]
            ELSE chain(k - 1, bnode(m),
                       patterns \o <<TriplePattern(bnode(m), RdfFirst, o[k].focus),
                                     TriplePattern(bnode(m), RdfRest, current_list_node)>>
                                \o o[k].patterns,
                       m + 1)
    IN  chain(Len(o), RdfNil, <<>>, n)

\* GraphNode for each item of a text, from the first: a term, or for "list"
\* the nested collection ( <http://e/c> ).
RECURSIVE Collection_items(_, _, _)
Collection_items(kinds, o, n) ==
    IF kinds = <<>> THEN [o |-> o, allocated |-> n]
    ELSE IF Head(kinds) = "list"
    THEN LET inner == Collection(<<[focus |-> NamedNode("http://e/c"), patterns |-> <<>>]>>, n)
         IN  Collection_items(Tail(kinds),
                 Append(o, [focus |-> inner.focus, patterns |-> inner.patterns]),
                 inner.allocated)
    ELSE Collection_items(Tail(kinds),
             Append(o, [focus |-> IF Head(kinds) = "v" THEN Variable("v")
                                  ELSE NamedNode("http://e/" \o Head(kinds)),
                        patterns |-> <<>>]),
             n)

RECURSIVE add_to_triple_or_path_patterns(_, _, _, _, _)

\* add_to_triple_or_path_patterns keeping the subject and the object of a
\* reversed path in place.
add_path_unreversed(subject, p, object, patterns, n) ==
    IF p[1] \in {"Variable", "NamedNode"}
    THEN [patterns |-> Append(patterns, TriplePattern(subject, p, object)),
          allocated |-> n]
    ELSE IF p[1] = "Reverse"
    THEN add_to_triple_or_path_patterns(subject, p[2], object, patterns, n)
    ELSE IF p[1] = "Sequence"
    THEN LET a == add_to_triple_or_path_patterns(subject, p[2], bnode(n), patterns, n + 1)
         IN  add_to_triple_or_path_patterns(bnode(n), p[3], object, a.patterns, a.allocated)
    ELSE [patterns |-> Append(patterns, Path(subject, p, object)), allocated |-> n]

\* add_to_triple_or_path_patterns on an object without annotations, after n
\* calls of bnode(): the patterns with the new ones pushed.
add_to_triple_or_path_patterns(subject, p, object, patterns, n) ==
    IF p[1] \in {"Variable", "NamedNode"}
    THEN [patterns |-> Append(patterns, TriplePattern(subject, p, object)),
          allocated |-> n]
    ELSE IF p[1] = "Reverse"
    THEN add_to_triple_or_path_patterns(object, p[2], subject, patterns, n)
    ELSE IF p[1] = "Sequence"
    THEN LET a == add_to_triple_or_path_patterns(subject, p[2], bnode(n), patterns, n + 1)
         IN  add_to_triple_or_path_patterns(bnode(n), p[3], object, a.patterns, a.allocated)
    ELSE [patterns |-> Append(patterns, Path(subject, p, object)), allocated |-> n]

\* An object with its annotations, each a predicate with its objects.
AnnotatedTermPath(term, annotations) == [term |-> term, annotations |-> annotations]

\* The pairs of a predicate and one of its objects, in the order of the two
\* loops of add_triple_to_triple_or_path_patterns.
RECURSIVE AnnotationPairs(_)
AnnotationPairs(annotations) ==
    IF annotations = <<>> THEN <<>>
    ELSE [k \in 1..Len(Head(annotations)[2]) |->
             <<Head(annotations)[1], Head(annotations)[2][k]>>]
         \o AnnotationPairs(Tail(annotations))

RECURSIVE add_annotated_to_triple_or_path_patterns(_, _, _, _, _)
RECURSIVE add_triple_to_triple_or_path_patterns(_, _, _, _, _)

\* add_annotated_to_triple_or_path_patterns refusing the annotations of
\* every predicate that is written as a path.
add_annotated_refusing_reverse(subject, p, object, patterns, n) ==
    IF p[1] \notin {"Variable", "NamedNode"} /\ object.annotations # <<>>
    THEN [patterns |-> patterns, allocated |-> n,
          error |-> "Annotations are not allowed on property paths"]
    ELSE add_annotated_to_triple_or_path_patterns(subject, p, object, patterns, n)

\* add_to_triple_or_path_patterns on an object with its annotations, after n
\* calls of bnode(): the patterns with the new ones pushed, or the error.
add_annotated_to_triple_or_path_patterns(subject, p, object, patterns, n) ==
    IF p[1] \in {"Variable", "NamedNode"}
    THEN add_triple_to_triple_or_path_patterns(subject, p, object, patterns, n)
    ELSE IF p[1] = "Reverse"
    THEN add_annotated_to_triple_or_path_patterns(
             object.term, p[2], AnnotatedTermPath(subject, object.annotations), patterns, n)
    ELSE IF object.annotations # <<>>
    THEN [patterns |-> patterns, allocated |-> n,
          error |-> "Annotations are not allowed on property paths"]
    ELSE IF p[1] = "Sequence"
    THEN LET a == add_annotated_to_triple_or_path_patterns(
                      subject, p[2], AnnotatedTermPath(bnode(n), <<>>), patterns, n + 1)
         IN  IF a.error # "none" THEN a
             ELSE add_annotated_to_triple_or_path_patterns(
                      bnode(n), p[3], AnnotatedTermPath(object.term, <<>>),
                      a.patterns, a.allocated)
    ELSE [patterns |-> Append(patterns, Path(subject, p, object.term)), allocated |-> n,
          error |-> "none"]

\* add_triple_to_triple_or_path_patterns: the patterns of the annotations,
\* whose subject is the triple itself, then the triple.
add_triple_to_triple_or_path_patterns(subject, predicate, object, patterns, n) ==
    LET triple == TriplePattern(subject, predicate, object.term)
        pairs == AnnotationPairs(object.annotations)
        RECURSIVE each(_, _)
        each(k, acc) ==
            IF acc.error # "none" THEN acc
            ELSE IF k > Len(pairs)
            THEN [acc EXCEPT !.patterns = Append(@, triple)]
            ELSE each(k + 1, add_annotated_to_triple_or_path_patterns(
                                 <<"Triple", triple>>, pairs[k][1], pairs[k][2],
                                 acc.patterns, acc.allocated))
    IN  each(1, [patterns |-> patterns, allocated |-> n, error |-> "none"])

\* The predicates of the annotated objects: an IRI, a variable, and each
\* shape of path over IRIs.
AnnotatedPredicates ==
    LET p == NamedNode("http://e/p")
        q == NamedNode("http://e/q")
    IN  {p, Variable("p"), <<"Reverse", p>>, <<"Reverse", <<"Reverse", p>>>>,
         <<"Reverse", <<"Sequence", p, q>>>>, <<"Reverse", <<"ZeroOrMore", p>>>>,
         <<"Sequence", p, q>>, <<"Sequence", <<"Reverse", p>>, q>>,
         <<"Alternative", p, q>>, <<"ZeroOrOne", p>>, <<"ZeroOrMore", p>>,
         <<"OneOrMore", p>>, <<"NegatedPropertySet", <<p>>>>}

\* The annotations written after an object: at most MaxAnnotations
\* predicates, each with one object that may be annotated itself.
MaxAnnotations == 2
Annotations ==
    LET plain == AnnotatedTermPath(Variable("z"), <<>>)
        inner == AnnotatedTermPath(Variable("y"), <<<<NamedNode("http://e/r"), <<plain>>>>>>)
        one == {<<ap, <<o>>>> : ap \in {NamedNode("http://e/a"), Variable("a"),
                                        <<"Reverse", NamedNode("http://e/a")>>,
                                        <<"ZeroOrMore", NamedNode("http://e/a")>>},
                                o \in {plain, inner}}
    IN  SeqsUpTo(one, MaxAnnotations)

\* The property paths of the calls: IRIs, and ^, *, / and | over them, twice.
PathShapes ==
    LET iris == {NamedNode("http://e/p"), NamedNode("http://e/q")}
        over(ps) == {<<"Reverse", x>> : x \in ps} \cup {<<"ZeroOrMore", x>> : x \in ps}
                    \cup {<<"Sequence", x, y>> : x, y \in ps}
        once == iris \cup over(iris) \cup {<<"Alternative", x, y>> : x, y \in iris}
    IN  once \cup over(once)

\* build_select with a GROUP BY key synthesized for every SELECT.
build_select_always_grouped(select, wher, group, having, order_by, offset_limit, values, popped, n) ==
    [pattern |-> [t |-> "Group",
                  inner |-> [t |-> "Extend", inner |-> wher, var |-> variable(n),
                             expr |-> <<"Literal", "1",
                                        "http://www.w3.org/2001/XMLSchema#integer">>],
                  by |-> <<variable(n)>>, aggregates |-> popped],
     allocated |-> n + 1]

\* build_select after state.aggregates.pop(): aggregates is the collector
\* popped, n the calls of variable() so far, select.variables a list.
build_select_pattern(select, wher, group, having, order_by, offset_limit, values, popped, n) ==
    LET synthesized == group = None /\ popped # <<>>
        const_variable == variable(n)
        grouped == IF synthesized
                   THEN Some(<<<<const_variable>>,
                               <<<<<<"Literal", "1",
                                     "http://www.w3.org/2001/XMLSchema#integer">>,
                                   const_variable>>>>>>)
                   ELSE group
        RECURSIVE extended(_, _)
        extended(p, binds) ==
            IF binds = <<>> THEN p
            ELSE extended([t |-> "Extend", inner |-> p, var |-> Head(binds)[2],
                           expr |-> Head(binds)[1]], Tail(binds))
        p1 == IF grouped = None THEN wher
              ELSE [t |-> "Group", inner |-> extended(wher, grouped[2][2]),
                    by |-> grouped[2][1], aggregates |-> popped]
        p2 == IF having = None THEN p1
              ELSE [t |-> "Filter", expr |-> having[2], inner |-> p1]
        p3 == IF values = None THEN p2 ELSE new_join(p2, values[2])
        RECURSIVE selected(_, _, _)
        selected(items, p, pv) ==
            IF items = <<>> THEN [p |-> p, pv |-> pv]
            ELSE LET item == Head(items)
                 IN  IF item[1] = "Variable"
                     THEN selected(Tail(items), p, Append(pv, item))
                     ELSE IF \E k \in 1..Len(pv) : pv[k] = item[3]
                     THEN selected(Tail(items), p, pv)
                     ELSE selected(Tail(items),
                                   [t |-> "Extend", inner |-> p, var |-> item[3],
                                    expr |-> item[2]],
                                   Append(pv, item[3]))
        sel == selected(select.variables[2], p3, <<>>)
        m1 == IF order_by = None THEN sel.p
              ELSE [t |-> "OrderBy", inner |-> sel.p, condition |-> order_by[2]]
        m2 == [t |-> "Project", inner |-> m1, projection |-> sel.pv]
        m3 == IF select.option = "Default" THEN m2
              ELSE [t |-> select.option, inner |-> m2]
        m4 == IF offset_limit = None THEN m3
              ELSE [t |-> "Slice", inner |-> m3, start |-> offset_limit[2][1],
                    length |-> offset_limit[2][2]]
    IN  [pattern |-> m4, allocated |-> IF synthesized THEN n + 1 ELSE n]

\* The nodes of a pattern from the outermost inwards, following inner and,
\* at a Join, its left operand.
RECURSIVE Spine(_)
Spine(p) ==
    <<p>> \o (IF "inner" \in DOMAIN p THEN Spine(p.inner)
              ELSE IF p.t = "Join" THEN Spine(p.left)
              ELSE <<>>)

\* The AggregationFunction of rule Aggregate for a call as written: its
\* name, "*" or ?x as the argument, DISTINCT or not, a SEPARATOR or none.
Aggregate(written) ==
    IF written.name = "Count"
    THEN [f |-> "Count", expr |-> IF written.star THEN None ELSE Some(Variable("x")),
          distinct |-> written.distinct]
    ELSE IF written.name = "GroupConcat"
    THEN IF written.distinct
         THEN [f |-> "GroupConcat", expr |-> Variable("x"), distinct |-> TRUE,
               separator |-> written.separator]
         ELSE IF written.separator # None
         THEN [f |-> "GroupConcat", expr |-> Variable("x"), distinct |-> TRUE,
               separator |-> written.separator]
         ELSE [f |-> "GroupConcat", expr |-> Variable("x"), distinct |-> FALSE,
               separator |-> None]
    ELSE IF written.name = "Custom"
    THEN [f |-> "Custom", name |-> NamedNode("http://e/f"), expr |-> Variable("x"),
          distinct |-> written.distinct]
    ELSE [f |-> written.name, expr |-> Variable("x"), distinct |-> written.distinct]

\* The calls of the texts: every form of rule Aggregate, with and without
\* DISTINCT; at most MaxCalls in one select list.
MaxCalls == 2
AggregateCalls ==
    {[name |-> "Count", star |-> star, distinct |-> d, separator |-> None] :
        star \in BOOLEAN, d \in BOOLEAN}
    \cup {[name |-> f, star |-> FALSE, distinct |-> d, separator |-> None] :
             f \in {"Sum", "Min", "Max", "Avg", "Sample", "Custom"}, d \in BOOLEAN}
    \cup {[name |-> "GroupConcat", star |-> FALSE, distinct |-> d, separator |-> s] :
             d \in BOOLEAN, s \in {None, Some(",")}}

\* The calls read one after the other in a select list, after n calls of
\* variable(): the variable that stands for each, and the collector.
RECURSIVE Aggregates(_, _, _)
Aggregates(calls, aggs, n) ==
    IF calls = <<>> THEN [vars |-> <<>>, aggregates |-> aggs[Len(aggs)]]
    ELSE LET r == new_aggregation(aggs, Aggregate(Head(calls)), n)
             rest == Aggregates(Tail(calls), r.aggregates, r.allocated)
         IN  [rest EXCEPT !.vars = <<r.res[2]>> \o @]

\* The expressions of the texts: a variable, or the call of an aggregate.
ExpressionTexts ==
    {<<"Var", "x">>, <<"Agg", <<"Sum", "?x", FALSE>>>>, <<"Agg", <<"Sum", "?x", TRUE>>>>}

\* The select lists of the texts: ?s, then up to MaxMembers expressions
\* (e AS ?n) (e AS ?m), or (e AS ?s) after ?s.
MaxMembers == 2
MemberTexts ==
    {<<<<"Var", "s">>>> \o [k \in 1..Len(es) |-> <<"As", es[k], <<"n", "m", "l">>[k]>>] :
        es \in SeqsUpTo(ExpressionTexts, MaxMembers)}
    \cup {<<<<"Var", "s">>, <<"As", e, "s">>>> : e \in ExpressionTexts}

\* An expression read with the aggregate stack aggs after n calls of
\* variable(): the call of an aggregate is registered by new_aggregation and
\* stands in the expression as the variable returned.
Expression(text, aggs, n) ==
    IF text[1] = "Var"
    THEN [expr |-> Variable(text[2]), aggregates |-> aggs, allocated |-> n]
    ELSE LET r == new_aggregation(aggs, text[2], n)
         IN  [expr |-> r.res[2], aggregates |-> r.aggregates, allocated |-> r.allocated]

\* SelectClause_member+ on the members of a select list.
RECURSIVE SelectClause_member(_, _, _)
SelectClause_member(texts, aggs, n) ==
    IF texts = <<>> THEN [members |-> <<>>, aggregates |-> aggs, allocated |-> n]
    ELSE LET text == Head(texts)
             e == Expression(text[2], aggs, n)
             rest == IF text[1] = "Var" THEN SelectClause_member(Tail(texts), aggs, n)
                     ELSE SelectClause_member(Tail(texts), e.aggregates, e.allocated)
         IN  [rest EXCEPT !.members =
                 <<IF text[1] = "Var" THEN Variable(text[2])
                   ELSE <<"Expression", e.expr, Variable(text[3])>>>> \o @]

\* What SelectQuery and SubSelect have read when they call build_select:
\* SelectClause (Selection_init, then the members), the WHERE pattern, GROUP
\* BY, one HAVING condition, one ORDER BY condition, LIMIT/OFFSET and VALUES,
\* with the collector the aggregates of the clauses were registered in.
SelectQuery(option, members, wher, group, having, order_by, offset_limit, values) ==
    LET s == SelectClause_member(members, Selection_init(<<>>), 0)
        h == IF having = None THEN s
             ELSE Expression(having[2], s.aggregates, s.allocated)
        o == IF order_by = None THEN h
             ELSE Expression(order_by[2], h.aggregates, h.allocated)
    IN  [fn |-> "build_select",
         texts |-> [members |-> members, having |-> having, order_by |-> order_by],
         select |-> [option |-> option, variables |-> Some(s.members)],
         wher |-> wher, group |-> group,
         having |-> IF having = None THEN None ELSE Some(h.expr),
         order_by |-> IF order_by = None THEN None ELSE Some(<<<<"Asc", o.expr>>>>),
         offset_limit |-> offset_limit, values |-> values,
         aggregates |-> o.aggregates[1]]

\* The quads of the DELETE and INSERT templates: in the default graph, in a
\* named graph and in a variable graph; at most MaxTemplate in a template.
MaxTemplate == 2
TemplateQuads ==
    {QuadPattern(Variable("s"), NamedNode("http://e/p"), Variable("o"), DefaultGraph),
     QuadPattern(Variable("o"), NamedNode("http://e/q"), Variable("s"), DefaultGraph),
     QuadPattern(Variable("s"), NamedNode("http://e/p"), Variable("o"),
                 NamedNode("http://e/g2")),
     QuadPattern(Variable("s"), NamedNode("http://e/p"), Variable("o"), Variable("g"))}

\* GroupGraphPatternSub with each FILTER applied where it is written.
GroupGraphPatternSub_in_place(p) ==
    LET RECURSIVE fold(_, _)
        fold(k, g) ==
            IF k > Len(p) THEN g
            ELSE LET e == p[k]
                 IN  fold(k + 1,
                          IF e[1] = "Optional"
                          THEN [t |-> "LeftJoin", left |-> g, right |-> e[2], expr |-> e[3]]
                          ELSE IF e[1] = "Minus"
                          THEN [t |-> "Minus", left |-> g, right |-> e[2]]
                          ELSE IF e[1] = "Bind"
                          THEN [t |-> "Extend", inner |-> g, var |-> e[3], expr |-> e[2]]
                          ELSE IF e[1] = "Filter"
                          THEN [t |-> "Filter", expr |-> e[2], inner |-> g]
                          ELSE new_join(g, e[2]))
    IN  fold(1, Bgp(<<>>))

\* The pattern GroupGraphPatternSub builds from the elements p of a group
\* (PartialGraphPattern: Optional, Minus, Bind, Filter, Other), folded from
\* GraphPattern::default(), the empty BGP.
GroupGraphPatternSub_fold(p) ==
    LET RECURSIVE fold(_, _, _)
        fold(k, g, filter) ==
            IF k > Len(p)
            THEN IF filter = None THEN g
                 ELSE [t |-> "Filter", expr |-> filter[2], inner |-> g]
            ELSE LET e == p[k]
                 IN  IF e[1] = "Optional"
                     THEN fold(k + 1, [t |-> "LeftJoin", left |-> g, right |-> e[2],
                                       expr |-> e[3]], filter)
                     ELSE IF e[1] = "Minus"
                     THEN fold(k + 1, [t |-> "Minus", left |-> g, right |-> e[2]], filter)
                     ELSE IF e[1] = "Bind"
                     THEN fold(k + 1, [t |-> "Extend", inner |-> g, var |-> e[3],
                                       expr |-> e[2]], filter)
                     ELSE IF e[1] = "Filter"
                     THEN fold(k + 1, g, IF filter = None THEN Some(e[2])
                                         ELSE Some(<<"And", filter[2], e[2]>>))
                     ELSE fold(k + 1, new_join(g, e[2]), filter)
    IN  fold(1, Bgp(<<>>), None)

\* The elements of the groups: triples, a path, GRAPH, a nested group with a
\* FILTER of its own, OPTIONAL, MINUS, BIND and two FILTERs; at most
\* MaxElements in a group.
MaxElements == 3
GroupElements ==
    LET t1 == Bgp(<<TriplePattern(Variable("s"), NamedNode("http://e/p"), Variable("o"))>>)
        t2 == Bgp(<<TriplePattern(Variable("o"), NamedNode("http://e/q"), Variable("s"))>>)
    IN  {<<"Other", t1>>,
         <<"Other", Path(Variable("s"), <<"ZeroOrMore", NamedNode("http://e/p")>>,
                         Variable("o"))>>,
         <<"Other", Graph(Variable("g"), t2)>>,
         <<"Other", [t |-> "Filter", expr |-> <<"Bound", Variable("o")>>, inner |-> t2]>>,
         <<"Optional", t2, None>>,
         <<"Minus", t2>>,
         <<"Bind", <<"Str", Variable("s")>>, Variable("b")>>,
         <<"Filter", <<"Bound", Variable("s")>>>>,
         <<"Filter", <<"IsIri", Variable("s")>>>>}

\* What follows LIMIT and OFFSET in the text: digits, or a sign.
NumberTexts == SeqsUpTo({Zero, Zero + 1, Zero + 9, Hyphen}, MaxDigits)

BuildersInit ==
    /\ UnescapeDone
    /\ ParserIdle
    /\ \/ /\ \E limit, offset \in {None} \cup {Some(t) : t \in NumberTexts} :
                /\ limit # None \/ offset # None
                /\ args = [fn |-> "LimitOffsetClauses", limit |-> limit, offset |-> offset]
          /\ result = [limit_first |-> None, offset_first |-> None]
       \/ /\ \E items \in SeqsUpTo({"a", "b", "c", "v", "list"}, MaxItems) :
                /\ items # <<>>
                /\ args = [fn |-> "Collection", items |-> items]
          /\ result = [o |-> None, res |-> None]
       \/ /\ \E subject \in {Variable("s"), NamedNode("http://e/s")}, path \in PathShapes :
                args = [fn |-> "add_to_triple_or_path_patterns", subject |-> subject,
                        path |-> path, object |-> Variable("o")]
          /\ result = None
       \/ /\ \E option \in {"Default", "Distinct", "Reduced"},
                members \in MemberTexts,
                wher \in {Bgp(<<>>),
                          Bgp(<<TriplePattern(Variable("s"), NamedNode("http://e/p"),
                                              Variable("x"))>>)},
                group \in {None, Some(<<<<Variable("s")>>, <<>>>>),
                           Some(<<<<Variable("k")>>,
                                  <<<<<<"Str", Variable("s")>>, Variable("k")>>>>>>)},
                having \in {None} \cup {Some(e) : e \in ExpressionTexts},
                order_by \in {None} \cup {Some(e) : e \in ExpressionTexts},
                offset_limit \in {None, Some(<<0, Some(1)>>)},
                values \in {None, Some([t |-> "Values", variables |-> <<Variable("s")>>,
                                        bindings |-> <<>>])} :
                args = SelectQuery(option, members, wher, group, having, order_by,
                                   offset_limit, values)
          /\ result = None
       \/ /\ \E with \in {None, Some(NamedNode("http://e/g1"))},
                delete, insert \in {None} \cup {Some(q) : q \in SeqsUpTo(TemplateQuads, MaxTemplate)},
                u \in SeqsUpTo({<<Some(NamedNode("http://e/g2")), None>>,
                                <<None, Some(NamedNode("http://e/g3"))>>}, MaxTemplate) :
                /\ delete # None \/ insert # None
                /\ args = [fn |-> "Modify", with |-> with, c |-> <<delete, insert>>, u |-> u,
                           pattern |-> Bgp(<<TriplePattern(Variable("s"),
                                               NamedNode("http://e/p"), Variable("o"))>>)]
          /\ result = None
       \/ /\ \E p \in AnnotatedPredicates, annotations \in Annotations :
                args = [fn |-> "ObjectPath", subject |-> Variable("s"), path |-> p,
                        object |-> AnnotatedTermPath(Variable("o"), annotations)]
          /\ result = None
       \/ /\ \E calls \in SeqsUpTo(AggregateCalls, MaxCalls) :
                /\ calls # <<>>
                /\ args = [fn |-> "Aggregate", calls |-> calls]
          /\ result = None
       \/ /\ \E p \in SeqsUpTo(GroupElements, MaxElements) :
                args = [fn |-> "GroupGraphPatternSub", p |-> p]
          /\ result = None

\* The solution modifiers written as LIMIT .. OFFSET .., then build_select's
\* Slice { start, length }.
LimitFirst ==
    /\ args.fn = "LimitOffsetClauses"
    /\ args.limit # None
    /\ result.limit_first = None
    /\ result' = [result EXCEPT !.limit_first =
                     Some(LimitOffsetClauses("LIMIT", args.limit, args.offset))]
    /\ UNCHANGED <<args, uvars, gvars, svars, bvars, avars, ctx, decls>>

\* The same written as OFFSET .. LIMIT ..
OffsetFirst ==
    /\ args.fn = "LimitOffsetClauses"
    /\ args.offset # None
    /\ result.offset_first = None
    /\ result' = [result EXCEPT !.offset_first =
                     Some(LimitOffsetClauses("OFFSET", args.limit, args.offset))]
    /\ UNCHANGED <<args, uvars, gvars, svars, bvars, avars, ctx, decls>>

\* ( items ): the items are read, then the action of Collection runs.
ReadCollection ==
    /\ args.fn = "Collection"
    /\ result.res = None
    /\ LET read == Collection_items(args.items, <<>>, 0)
       IN  result' = [o |-> Some(read.o), res |-> Some(Collection(read.o, read.allocated))]
    /\ UNCHANGED <<args, uvars, gvars, svars, bvars, avars, ctx, decls>>

\* subject path object in a group: the patterns of the property list.
AddPath ==
    /\ args.fn = "add_to_triple_or_path_patterns"
    /\ result = None
    /\ result' = Some(add_to_triple_or_path_patterns(args.subject, args.path,
                                                     args.object, <<>>, 0))
    /\ UNCHANGED <<args, uvars, gvars, svars, bvars, avars, ctx, decls>>

\* subject path object {| ... |} in a group: the patterns of the property
\* list, or the error of the action.
AddAnnotated ==
    /\ args.fn = "ObjectPath"
    /\ result = None
    /\ result' = Some(add_annotated_to_triple_or_path_patterns(
                          args.subject, args.path, args.object, <<>>, 0))
    /\ UNCHANGED <<args, uvars, gvars, svars, bvars, avars, ctx, decls>>

\* The calls of aggregates of a select list, read with one collector open.
ReadAggregates ==
    /\ args.fn = "Aggregate"
    /\ result = None
    /\ result' = Some(Aggregates(args.calls, <<<<>>>>, 0))
    /\ UNCHANGED <<args, uvars, gvars, svars, bvars, avars, ctx, decls>>

\* The action of GroupGraphPatternSub on the elements read.
BuildGroup ==
    /\ args.fn = "GroupGraphPatternSub"
    /\ result = None
    /\ result' = Some(GroupGraphPatternSub_fold(args.p))
    /\ UNCHANGED <<args, uvars, gvars, svars, bvars, avars, ctx, decls>>

\* The action of Modify on the clauses read.
BuildModify ==
    /\ args.fn = "Modify"
    /\ result = None
    /\ result' = Some(Modify(args.with, args.c, args.u, args.pattern))
    /\ UNCHANGED <<args, uvars, gvars, svars, bvars, avars, ctx, decls>>

\* The action of SelectQuery or SubSelect: build_select on what was read.
BuildSelect ==
    /\ args.fn = "build_select"
    /\ result = None
    /\ result' = Some(build_select_pattern(args.select, args.wher, args.group,
                          args.having, args.order_by, args.offset_limit, args.values,
                          args.aggregates, Len(args.aggregates)))
    /\ UNCHANGED <<args, uvars, gvars, svars, bvars, avars, ctx, decls>>

BuildersNext ==
    \/ LimitFirst
    \/ OffsetFirst
    \/ ReadCollection
    \/ AddPath
    \/ BuildSelect
    \/ BuildModify
    \/ BuildGroup
    \/ ReadAggregates
    \/ AddAnnotated

SpecBuilders == BuildersInit /\ [][BuildersNext]_vars

\* The value of an unsigned decimal numeral, from its last digit.
RECURSIVE Decimal(_)
Decimal(text) ==
    IF text = <<>> THEN 0
    ELSE Decimal(SubSeq(text, 1, Len(text) - 1)) * 10 + (text[Len(text)] - Zero)

FitsUsize(t) ==
    t # None => /\ t[2] # <<>>
                /\ \A k \in 1..Len(t[2]) : t[2][k] - Zero \in 0..9
                /\ Decimal(t[2]) <= UsizeMax

SliceOf(r) ==
    r # None =>
        IF FitsUsize(args.limit) /\ FitsUsize(args.offset)
        THEN r[2] = Ok(<<IF args.offset = None THEN 0 ELSE Decimal(args.offset[2]),
                        IF args.limit = None THEN None ELSE Some(Decimal(args.limit[2]))>>)
        ELSE ~IsOk(r[2])

(***************************************************************************)
(* C12: LIMIT and OFFSET accept exactly the unsigned decimal integers that *)
(* fit in usize (a negative or an overflowing value is rejected, 0 is      *)
(* accepted); the Slice has start = the OFFSET value, or 0 when OFFSET is  *)
(* absent, and length = the LIMIT value, or none when LIMIT is absent,     *)
(* whichever of LIMIT and OFFSET is written first.                         *)
(***************************************************************************)
C12_LimitOffset ==
    args.fn = "LimitOffsetClauses" =>
        /\ SliceOf(result.limit_first)
        /\ SliceOf(result.offset_first)

C12_Witness ==
    /\ args.fn = "LimitOffsetClauses"
    /\ args.limit = Some(<<Zero>>)
    /\ args.offset = Some(<<Zero, Zero + 9>>)
    /\ result.limit_first = Some(Ok(<<9, Some(0)>>))
    /\ result.offset_first = result.limit_first

\* r is the list built for the items o: nodes gives the node of each item.
IsListOf(r, o, nodes) ==
    LET n == Len(o)
        At(subject, predicate) ==
            {k \in 1..Len(r.patterns) : /\ r.patterns[k].subject = subject
                                        /\ r.patterns[k].predicate = predicate}
        ItemTerms == {o[i].focus : i \in 1..n}
                     \cup UNION {{o[i].patterns[k].subject : k \in 1..Len(o[i].patterns)} :
                                 i \in 1..n}
    IN  /\ \A i, j \in 1..n : i # j => nodes[i] # nodes[j]
        /\ \A i \in 1..n :
              /\ nodes[i][1] = "BlankNode"
              /\ nodes[i] \notin ItemTerms
              /\ \E k \in 1..Len(r.patterns) :
                    /\ At(nodes[i], RdfFirst) = {k}
                    /\ r.patterns[k].object = o[i].focus
              /\ \E k \in 1..Len(r.patterns) :
                    /\ At(nodes[i], RdfRest) = {k}
                    /\ r.patterns[k].object = IF i < n THEN nodes[i + 1] ELSE RdfNil
        /\ Cardinality({k \in 1..Len(r.patterns) :
                           \E i \in 1..n : r.patterns[k].subject = nodes[i]}) = 2 * n
        /\ Cardinality({k \in 1..Len(r.patterns) :
                           \A i \in 1..n : \A j \in 1..Len(o[i].patterns) :
                              r.patterns[k] # o[i].patterns[j]}) = 2 * n
        /\ r.focus = nodes[1]

(***************************************************************************)
(* C15: a collection of n >= 1 items produces exactly 2n list triples with *)
(* n pairwise distinct fresh blank nodes: one rdf:first and one rdf:rest   *)
(* triple per item, the rdf:rest of the node of item i pointing to the     *)
(* node of item i+1 and that of the last item to rdf:nil; the term         *)
(* standing for the collection is the node of the first item.              *)
(***************************************************************************)
C15_CollectionTriples ==
    (args.fn = "Collection" /\ result.res # None) =>
        LET r == result.res[2]
            o == result.o[2]
        IN  /\ Len(o) = Len(args.items)
            /\ \E nodes \in [1..Len(o) -> {bnode(k) : k \in 0..(r.allocated - 1)}] :
                  IsListOf(r, o, nodes)

C15_Witness ==
    /\ args.fn = "Collection"
    /\ args.items = <<"a", "b", "c">>
    /\ result.res # None
    /\ Len(result.res[2].patterns) = 6
    /\ result.res[2].focus = bnode(2)

\* What subject path object yields, as add_to_triple_or_path_patterns
\* returns it for a call after n calls of bnode().
Yields(subject, path, object, n) ==
    add_to_triple_or_path_patterns(subject, path, object, <<>>, n).patterns

(***************************************************************************)
(* C16: property-path lowering. s p/q o yields the patterns of (s p m)     *)
(* followed by those of (m q o) for one fresh blank node m used nowhere    *)
(* else; s ^p o yields exactly what o p s yields; a path that is a bare    *)
(* IRI yields a plain triple; every other path shape yields one Path node  *)
(* with that path. No emitted Path node has a NamedNode, Sequence or       *)
(* Reverse at its top level.                                               *)
(***************************************************************************)
C16_PathLowering ==
    (args.fn = "add_to_triple_or_path_patterns" /\ result # None) =>
        LET s == args.subject
            o == args.object
            path == args.path
            yielded == result[2].patterns
            fresh == {bnode(k) : k \in 0..(result[2].allocated - 1)}
            TermsOf(ps) == {ps[k].subject : k \in 1..Len(ps)}
                           \cup {ps[k].object : k \in 1..Len(ps)}
        IN  /\ path[1] = "Sequence" =>
                 \E m \in fresh :
                    \E split \in 1..(Len(yielded) - 1) :
                       LET head == SubSeq(yielded, 1, split)
                           tail == SubSeq(yielded, split + 1, Len(yielded))
                           others == fresh \ {m}
                       IN  /\ m \notin {s, o}
                           /\ \E n \in 0..result[2].allocated :
                                 head = Yields(s, path[2], m, n)
                           /\ \E n \in 0..result[2].allocated :
                                 tail = Yields(m, path[3], o, n)
                           /\ m \in TermsOf(head) /\ m \in TermsOf(tail)
                           /\ TermsOf(head) \cap TermsOf(tail) \cap fresh = {m}
            /\ path[1] = "Reverse" => yielded = Yields(o, path[2], s, 0)
            /\ (path[1] = "Reverse" /\ path[2][1] = "Reverse") =>
                 yielded = Yields(s, path[2][2], o, 0)
            /\ path[1] = "NamedNode" => yielded = <<TriplePattern(s, path, o)>>
            /\ path[1] \notin {"NamedNode", "Sequence", "Reverse"} =>
                 yielded = <<Path(s, path, o)>>
            /\ \A k \in 1..Len(yielded) :
                 "path" \in DOMAIN yielded[k] =>
                     yielded[k].path[1] \notin {"NamedNode", "Sequence", "Reverse"}

C16_Witness ==
    /\ args.fn = "add_to_triple_or_path_patterns"
    /\ args.path = <<"Sequence", <<"Reverse", NamedNode("http://e/p")>>,
                     <<"ZeroOrMore", NamedNode("http://e/q")>>>>
    /\ args.subject = Variable("s")
    /\ result # None
    /\ result[2].patterns =
          <<TriplePattern(bnode(0), NamedNode("http://e/p"), Variable("s")),
            Path(bnode(0), <<"ZeroOrMore", NamedNode("http://e/q")>>, Variable("o"))>>

XsdIntegerOne == <<"Literal", "1", "http://www.w3.org/2001/XMLSchema#integer">>

\* C20: build_select synthesizes a group exactly when GROUP BY is absent and
\* the popped collector is non-empty: the result then has one Group whose by
\* is one fresh variable g and whose aggregates are the collector, directly
\* over Extend{where, g, "1"^^xsd:integer}.  Without GROUP BY and without
\* aggregates there is no Group and no Extend of a key; with GROUP BY the
\* Group has the keys written and no key is synthesized.
C20_GroupSynthesized ==
    (args.fn = "build_select" /\ result # None) =>
        LET nodes == Spine(result[2].pattern)
            groups == {k \in 1..Len(nodes) : nodes[k].t = "Group"}
            keys == {k \in 1..Len(nodes) :
                        nodes[k].t = "Extend" /\ nodes[k].expr = XsdIntegerOne}
            given == {args.aggregates[i][1] : i \in 1..Len(args.aggregates)}
        IN  IF args.group = None /\ args.aggregates # <<>>
            THEN \E k \in groups :
                    /\ groups = {k}
                    /\ keys = {k + 1}
                    /\ nodes[k].by = <<nodes[k + 1].var>>
                    /\ nodes[k].aggregates = args.aggregates
                    /\ nodes[k + 1].inner = args.wher
                    /\ nodes[k + 1].var[1] = "Fresh"
                    /\ nodes[k + 1].var \notin given
                    /\ result[2].allocated = Len(args.aggregates) + 1
            ELSE IF args.group = None
            THEN groups = {} /\ keys = {}
                 /\ result[2].allocated = Len(args.aggregates)
            ELSE \E k \in groups :
                    /\ groups = {k}
                    /\ keys = {}
                    /\ nodes[k].by = args.group[2][1]
                    /\ nodes[k].aggregates = args.aggregates
                    /\ result[2].allocated = Len(args.aggregates)

\* A SELECT with two aggregates, a HAVING and no GROUP BY has been built.
C20_Witness ==
    /\ args.fn = "build_select"
    /\ result # None
    /\ args.group = None
    /\ Len(args.aggregates) = 2
    /\ args.having # None
    /\ \E k \in 1..Len(Spine(result[2].pattern)) :
            Spine(result[2].pattern)[k].t = "Group"

\* The functions of a collector.
Functions(collector) == {collector[i][2] : i \in 1..Len(collector)}

\* The "select" entries of ctx whose SelectClause has been entered, outermost
\* first.
RECURSIVE OpenSelects(_)
OpenSelects(c) ==
    IF c = <<>> THEN <<>>
    ELSE OpenSelects(Pop(c)) \o
         (IF c[Len(c)].t = "select" /\ c[Len(c)].ph # "start"
          THEN <<c[Len(c)]>> ELSE <<>>)

\* C19: the aggregate stack is balanced per SELECT. Entering a SELECT clause
\* (of the query or of a sub-select) pushes one empty collector; while no
\* error occurred the stack has one collector per SELECT being read, in
\* nesting order, and each holds exactly the aggregates read while its SELECT
\* was the innermost one, so none of a sub-select is in the enclosing SELECT's
\* collector and those of the outer SELECT read before and after a sub-select
\* are in the outer collector; building a SELECT pops its collector; the
\* stack is empty when a successful parse ends.
C19_StackBalanced ==
    /\ last.rule \in {"SelectClause", "SubSelect"} =>
          aggregates # <<>> /\ aggregates[Len(aggregates)] = <<>>
    /\ error = "none" =>
          /\ Len(aggregates) = Len(OpenSelects(ctx))
          /\ \A k \in 1..Len(aggregates) :
                Functions(aggregates[k]) = OpenSelects(ctx)[k].seen
    /\ (last.rule = "build_select" /\ last.t = "select") =>
          Functions(last.popped) = last.owned
    /\ (pc = "returned" /\ error = "none") => aggregates = <<>>

\* A sub-select with an aggregate of its own has been built inside a SELECT
\* that read another aggregate before it and a third one after it.
C19_Witness ==
    /\ error = "none"
    /\ Len(ctx) = 1
    /\ ctx[1].t = "select" /\ ctx[1].ph = "mods"
    /\ Len(aggregates) = 1
    /\ Len(aggregates[1]) = 2
    /\ aggregates[1][1][1] = variable(0)
    /\ aggregates[1][2][1] = variable(2)
    /\ last.rule = "Aggregate"
    /\ ~last.existed

\* C18: in every accepted query a blank-node label occurs in at most one
\* group scope: no label of an accepted query was accepted in two different
\* groups, successive or one nested in the other.
C18_OneGroupPerLabel ==
    (call.fn = "parse_query" /\ pc = "returned" /\ error = "none") => shared = {}

\* What new_join(l, r) = joined has to satisfy for two BGPs, and for the
\* Join nodes it returns.
BgpsMerged(l, r, joined) ==
    /\ (l.t = "Bgp" /\ r.t = "Bgp") => joined = Bgp(l.patterns \o r.patterns)
    /\ joined.t = "Join" => ~(joined.left.t = "Bgp" /\ joined.right.t = "Bgp")

GraphsFused(l, r, joined) ==
    (l.t = "Graph" /\ r.t = "Graph") =>
        IF l.graph_name = r.graph_name
        THEN /\ joined.t = "Graph"
             /\ joined.graph_name = l.graph_name
             /\ BgpsMerged(l.inner, r.inner, joined.inner)
             /\ IdentityOf(l.inner, r.inner, joined.inner)
             /\ (l.inner.t # "Bgp" /\ r.inner.t # "Bgp") =>
                    joined.inner = Join(l.inner, r.inner)
        ELSE joined = Join(l, r)

\* C27: new_join of two BGPs is one BGP whose triples are those of the left
\* followed by those of the right, each in its order, so new_join never
\* returns a Join of two BGPs; two Graph patterns over one name are fused
\* into one Graph over new_join of their inner patterns, and two Graph
\* patterns over different names are kept as a Join.
C27_BgpsMergedGraphsFused ==
    /\ result.ab # None =>
          /\ BgpsMerged(args[1], args[2], result.ab[2])
          /\ GraphsFused(args[1], args[2], result.ab[2])
    /\ result.bc # None =>
          /\ BgpsMerged(args[2], args[3], result.bc[2])
          /\ GraphsFused(args[2], args[3], result.bc[2])
    /\ result.left # None =>
          /\ BgpsMerged(result.ab[2], args[3], result.left[2])
          /\ GraphsFused(result.ab[2], args[3], result.left[2])
    /\ result.right # None =>
          /\ BgpsMerged(args[1], result.bc[2], result.right[2])
          /\ GraphsFused(args[1], result.bc[2], result.right[2])

\* Three BGPs of one triple each were joined into one BGP of three triples,
\* and so were three Graph patterns over one name.
C27_Witness ==
    /\ \A k \in 1..3 : args[k].t = "Graph" /\ args[k].graph_name = Variable("g")
                       /\ args[k].inner.t = "Bgp" /\ Len(args[k].inner.patterns) = 1
    /\ args[1].inner # args[2].inner
    /\ result.left # None
    /\ result.left[2].t = "Graph"
    /\ Len(result.left[2].inner.patterns) = 3
    /\ result.right = result.left

\* C23: during one parse used_bnodes grows monotonically, no label is ever
\* removed from it; the end of a group adds every label of
\* currently_used_bnodes to used_bnodes and leaves currently_used_bnodes
\* empty.
C23_UsedBnodesGrow ==
    [][/\ used_bnodes \subseteq used_bnodes'
       /\ last'.rule = "GroupGraphPatternSub" =>
             /\ used_bnodes' = used_bnodes \cup currently_used_bnodes
             /\ currently_used_bnodes' = {}]_vars

\* The kinds of the nodes of a pattern, outermost first.
Kinds(p) == [k \in 1..Len(Spine(p)) |-> Spine(p)[k].t]

\* The sequence s in reverse.
Reversed(s) == [k \in 1..Len(s) |-> s[Len(s) + 1 - k]]

\* C21: for every combination of present and absent clauses build_select
\* nests, from the innermost to the outermost: the WHERE pattern, one Extend
\* per group expression that is no variable, Group, Filter for HAVING, the
\* join with the VALUES table, one Extend per select expression, OrderBy,
\* Project, Distinct or Reduced, Slice; an absent clause contributes no node
\* and Project is always there.
C21_NestingOrder ==
    (args.fn = "build_select" /\ result # None) =>
        LET members == args.select.variables[2]
            exprs == SelectSeq(members, LAMBDA item : item[1] = "Expression")
            grouped == args.group # None \/ args.aggregates # <<>>
            binds == IF args.group = None THEN 1 ELSE Len(args.group[2][2])
            below == (IF args.having # None THEN <<"Filter">> ELSE <<>>)
                     \o (IF grouped THEN <<"Group">> \o [k \in 1..binds |-> "Extend"]
                         ELSE <<>>)
                     \o <<"Bgp">>
            joined == IF args.values = None THEN below
                      ELSE IF below = <<"Bgp">> /\ args.wher = Bgp(<<>>) THEN <<"Values">>
                      ELSE <<"Join">> \o below
            above == (IF args.offset_limit # None THEN <<"Slice">> ELSE <<>>)
                     \o (IF args.select.option # "Default"
                         THEN <<args.select.option>> ELSE <<>>)
                     \o <<"Project">>
                     \o (IF args.order_by # None THEN <<"OrderBy">> ELSE <<>>)
            nodes == Spine(result[2].pattern)
        IN  /\ Kinds(result[2].pattern)
                  = above \o [k \in 1..Len(exprs) |-> "Extend"] \o joined
            /\ \A k \in 1..Len(exprs) :
                  /\ nodes[Len(above) + k].var = Reversed(exprs)[k][3]
                  /\ nodes[Len(above) + k].expr = Reversed(exprs)[k][2]

\* Whether the expression e is the variable v.
IsVariable(e, v) == e[1] = v[1] /\ e[2] = v[2]

\* The nodes above the first k of a pattern's spine in which Project or
\* Extend names the variable v.
ProjectOrExtendOf(nodes, k, v) ==
    {j \in 1..(k - 1) :
        \/ nodes[j].t = "Extend" /\ IsVariable(nodes[j].expr, v)
        \/ nodes[j].t = "Project"
           /\ \E i \in 1..Len(nodes[j].projection) : IsVariable(nodes[j].projection[i], v)}

WrittenAt(texts, f) ==
    {k \in 1..Len(texts.members) :
        /\ texts.members[k][1] = "As"
        /\ texts.members[k][2] = <<"Agg", f>>
        /\ \A j \in 1..(k - 1) :
              texts.members[j][Len(texts.members[j])] # texts.members[k][3]}
    \cup (IF texts.having = Some(<<"Agg", f>>) THEN {Len(texts.members) + 1} ELSE {})
    \cup (IF texts.order_by = Some(<<"Agg", f>>) THEN {Len(texts.members) + 2} ELSE {})

\* The nodes above the first k of a pattern's spine whose expression is the
\* variable v: Extend, the Filter of HAVING, OrderBy.
ReferencesOf(nodes, k, v) ==
    {j \in 1..(k - 1) :
        \/ nodes[j].t \in {"Extend", "Filter"} /\ IsVariable(nodes[j].expr, v)
        \/ nodes[j].t = "OrderBy" /\ IsVariable(nodes[j].condition[1][2], v)}

Injected(with, written, quads) ==
    /\ Len(quads) = Len(written)
    /\ \A k \in 1..Len(written) :
          /\ quads[k].subject = written[k].subject
          /\ quads[k].predicate = written[k].predicate
          /\ quads[k].object = written[k].object
          /\ quads[k].graph_name =
                IF with # None /\ written[k].graph_name = DefaultGraph
                THEN with[2] ELSE written[k].graph_name

\* C25: Modify with WITH g rewrites to g the graph of exactly the delete and
\* insert quads whose graph is the default graph, and leaves subject,
\* predicate, object and order of every quad, and every quad with a named or
\* variable graph, unchanged; without USING the dataset becomes {default:
\* [g]}, a USING written is kept unchanged. Without WITH nothing is rewritten
\* and using is absent unless written.
C25_WithInjected ==
    (args.fn = "Modify" /\ result # None) =>
        LET op == result[2][1]
            written(t) == IF t = None THEN <<>> ELSE t[2]
            defaults == {k \in 1..Len(args.u) : args.u[k][1] # None}
            named == {k \in 1..Len(args.u) : args.u[k][2] # None}
        IN  /\ Len(result[2]) = 1
            /\ op.op = "DeleteInsert"
            /\ Injected(args.with, written(args.c[1]), op.delete)
            /\ Injected(args.with, written(args.c[2]), op.insert)
            /\ op.pattern = args.pattern
            /\ IF args.u = <<>>
               THEN op.using = IF args.with = None THEN None
                               ELSE Some([default |-> <<args.with[2]>>, named |-> None])
               ELSE /\ op.using # None
                    /\ Len(op.using[2].default) = Cardinality(defaults)
                    /\ Len(op.using[2].named[2]) = Cardinality(named)
                    /\ \A k \in defaults :
                          op.using[2].default[Cardinality({j \in defaults : j <= k})]
                              = args.u[k][1][2]
                    /\ \A k \in named :
                          op.using[2].named[2][Cardinality({j \in named : j <= k})]
                              = args.u[k][2][2]

\* WITH and USING were written; the DELETE template has a default-graph quad
\* after a variable-graph quad, the INSERT template a named-graph quad.
C25_Witness ==
    /\ args.fn = "Modify"
    /\ result # None
    /\ args.with # None
    /\ Len(args.u) = 2 /\ args.u[1] # args.u[2]
    /\ args.c[1] # None /\ Len(args.c[1][2]) = 2
    /\ args.c[1][2][1].graph_name = Variable("g")
    /\ args.c[1][2][2].graph_name = DefaultGraph
    /\ result[2][1].delete[2].graph_name = args.with[2]
    /\ args.c[2] # None /\ Len(args.c[2][2]) = 1
    /\ args.c[2][2][1].graph_name = NamedNode("http://e/g2")

\* The conjunction of the expressions es, in their order, nested to the left.
RECURSIVE Conjunction(_)
Conjunction(es) ==
    IF Len(es) = 1 THEN es[1]
    ELSE <<"And", Conjunction(SubSeq(es, 1, Len(es) - 1)), es[Len(es)]>>

RECURSIVE ReversedIri(_)
ReversedIri(p) ==
    \/ p[1] \in {"Variable", "NamedNode"}
    \/ p[1] = "Reverse" /\ ReversedIri(p[2])

\* The patterns hold what the statement subject ap o yields for each
\* annotation (ap, o) of the annotations.
AnnotationsOf(subject, annotations, patterns) ==
    \A k \in 1..Len(AnnotationPairs(annotations)) :
        LET ap == AnnotationPairs(annotations)[k][1]
            o == AnnotationPairs(annotations)[k][2]
            yielded == add_to_triple_or_path_patterns(subject, ap, o.term, <<>>, 0).patterns
        IN  \A j \in 1..Len(yielded) : \E i \in 1..Len(patterns) : patterns[i] = yielded[j]

\* Somewhere in the statement an annotation stands on an object whose
\* predicate is not a bare IRI or a variable.
RECURSIVE AnnotationOnPath(_, _)
AnnotationOnPath(p, object) ==
    \/ object.annotations # <<>> /\ p[1] \notin {"Variable", "NamedNode"}
    \/ \E k \in 1..Len(AnnotationPairs(object.annotations)) :
           AnnotationOnPath(AnnotationPairs(object.annotations)[k][1],
                            AnnotationPairs(object.annotations)[k][2])

\* Somewhere in the statement an annotation stands on an object whose
\* predicate is not an IRI or a variable under any number of ^.
RECURSIVE AnnotationOnProperPath(_, _)
AnnotationOnProperPath(p, object) ==
    \/ object.annotations # <<>> /\ ~ReversedIri(p)
    \/ \E k \in 1..Len(AnnotationPairs(object.annotations)) :
           AnnotationOnProperPath(AnnotationPairs(object.annotations)[k][1],
                                  AnnotationPairs(object.annotations)[k][2])

\* C24: an annotation on an object whose predicate is a property path, any
\* predicate that is not a bare IRI or a variable, is rejected with
\* "Annotations are not allowed on property paths"; on a bare IRI or a
\* variable the patterns of the annotations have the embedded triple as
\* their subject.
C24_AnnotationsOnPathsRejected ==
    (args.fn = "ObjectPath" /\ result # None /\ args.object.annotations # <<>>) =>
        LET r == result[2]
            triple == TriplePattern(args.subject, args.path, args.object.term)
        IN  IF AnnotationOnPath(args.path, args.object)
            THEN r.error = "Annotations are not allowed on property paths"
            ELSE /\ r.error = "none"
                 /\ r.patterns[Len(r.patterns)] = triple
                 /\ AnnotationsOf(<<"Triple", triple>>, args.object.annotations, r.patterns)

\* What the code does instead: the annotations of an object after ^ over an
\* IRI or a variable are kept, on the reversed triple.
AnnotationsKeptUnderReverse ==
    (args.fn = "ObjectPath" /\ result # None /\ args.object.annotations # <<>>) =>
        LET r == result[2]
            RECURSIVE reversed(_, _, _)
            reversed(p, s, o) ==
                IF p[1] = "Reverse" THEN reversed(p[2], o, s) ELSE TriplePattern(s, p, o)
            triple == reversed(args.path, args.subject, args.object.term)
        IN  IF AnnotationOnProperPath(args.path, args.object)
            THEN r.error = "Annotations are not allowed on property paths"
            ELSE /\ r.error = "none"
                 /\ r.patterns[Len(r.patterns)] = triple
                 /\ AnnotationsOf(<<"Triple", triple>>, args.object.annotations, r.patterns)

\* The function registered under the variable v in the collector.
RegisteredAs(v, collector) ==
    (CHOOSE i \in 1..Len(collector) : collector[i][1] = v)

\* C29: for every form of aggregate (COUNT, SUM, MIN, MAX, AVG, SAMPLE,
\* GROUP_CONCAT with or without SEPARATOR, custom) the distinct flag of the
\* function registered is true exactly when DISTINCT is written in the call,
\* and two calls that differ only in DISTINCT are registered as two
\* different aggregates.
C29_DistinctAsWritten ==
    (args.fn = "Aggregate" /\ result # None) =>
        LET r == result[2]
            calls == args.calls
        IN  /\ \A k \in 1..Len(calls) :
                   r.aggregates[RegisteredAs(r.vars[k], r.aggregates)][2].distinct
                       = calls[k].distinct
            /\ \A i, j \in 1..Len(calls) :
                   (calls[i] = [calls[j] EXCEPT !.distinct = ~@]) => r.vars[i] # r.vars[j]

\* The characters are n hexadecimal digits of a code point that is a char.
RECURSIVE HexValue(_, _)
HexValue(digits, acc) ==
    IF digits = <<>> THEN acc
    ELSE IF Head(digits) >= 128 \/ HexDigit(Head(digits)) < 0 THEN -1
    ELSE HexValue(Tail(digits), Min(acc * 16 + HexDigit(Head(digits)), MaxCodePoint + 1))

\* A valid escape stands at position i of s: \u and four hexadecimal digits,
\* or \U and eight, of a code point that is neither a surrogate nor above
\* U+10FFFF.
ValidEscapeAt(s, i) ==
    /\ i + 1 <= Len(s)
    /\ s[i] = Backslash
    /\ s[i + 1] \in {LowerU, UpperU}
    /\ LET n == IF s[i + 1] = LowerU THEN ShortEscapeLen ELSE LongEscapeLen
       IN  /\ i + 1 + n <= Len(s)
           /\ from_u32(HexValue(SubSeq(s, i + 2, i + 1 + n), 0)) >= 0

\* C28: unescape_unicode_codepoints returns its input unchanged whenever the
\* input holds no valid escape: with no \u and no \U at all, or with every
\* one of them invalid (a character that is no hexadecimal digit, a surrogate
\* or a code point out of range, fewer than 4 or 8 characters before the
\* end), the output is the input, character for character.
C28_UnchangedWithoutValidEscape ==
    (/\ ustate \in {"borrowed", "collected", "panicked"}
     /\ \A i \in 1..Len(input) : ~ValidEscapeAt(input, i))
        => (ustate # "panicked" /\ output = input)

\* The same, but for the inputs where one of the characters read after \u
\* or \U is '+' or takes more than one byte.
UnchangedWithoutEscapeOfDigits ==
    (/\ ustate \in {"borrowed", "collected", "panicked"}
     /\ \A i \in 1..Len(input) : ~ValidEscapeAt(input, i)
     /\ \A i \in 1..Len(input) : input[i] \notin {Plus, EAcute, Euro})
        => (ustate # "panicked" /\ output = input)

\* One pass over s from the left: a character that is not a backslash goes
\* through; backslash-u and backslash-U with the 4 or 8 characters after them
\* give the character of the code point, or go through with those characters
\* when they are not its digits or are fewer; a backslash goes through with
\* the character after it, whatever it is. What went through is never read
\* again.
RECURSIVE SinglePass(_)
SinglePass(s) ==
    IF s = <<>> THEN <<>>
    ELSE IF Head(s) # Backslash THEN <<Head(s)>> \o SinglePass(Tail(s))
    ELSE IF Len(s) = 1 THEN s
    ELSE IF s[2] \in {LowerU, UpperU}
    THEN LET n == IF s[2] = LowerU THEN ShortEscapeLen ELSE LongEscapeLen
         IN  IF Len(s) < n + 2 THEN s
             ELSE LET c == from_u32(from_str_radix(SubSeq(s, 3, n + 2)))
                  IN  IF c >= 0 THEN <<c>> \o SinglePass(SubSeq(s, n + 3, Len(s)))
                      ELSE SubSeq(s, 1, n + 2) \o SinglePass(SubSeq(s, n + 3, Len(s)))
    ELSE SubSeq(s, 1, 2) \o SinglePass(SubSeq(s, 3, Len(s)))

\* C30: the Unicode preprocessor is a single pass from left to right that
\* never reads again what it has emitted or buffered: the character decoded
\* from an escape is not joined with the text after it into a new escape, a
\* backslash after a backslash goes through with it, and the 4 or 8
\* characters read after the u or U of an invalid escape are emitted as they
\* are, also when the start of another escape is among them.
C30_SinglePass ==
    ustate \in {"borrowed", "collected", "panicked"} =>
        (ustate # "panicked" /\ output = SinglePass(input))

\* Whenever the preprocessor returns, it returns what the single pass
\* gives.
SinglePassWhenReturned ==
    ustate \in {"borrowed", "collected"} => output = SinglePass(input)

\* The three cases of the text, run to their end: an escaped backslash
\* before u00DD gives a backslash and u00DD; a doubled backslash before
\* u00DD, and an escape that starts within the four characters of another,
\* come out as they went in.
SinglePassCases ==
    (/\ ustate = "collected"
     /\ input \in {<<Backslash, LowerU, Zero, Zero, Five, UpperC,
                     LowerU, Zero, Zero, UpperD, UpperD>>,
                   <<Backslash, Backslash, LowerU, Zero, Zero, UpperD, UpperD>>,
                   <<Backslash, LowerU, Zero, Backslash, LowerU, Zero, Zero,
                     UpperD, UpperD>>})
        => output = (IF input[3] = Zero /\ input[4] = Zero
                     THEN <<Backslash, LowerU, Zero, Zero, UpperD, UpperD>>
                     ELSE input)

=============================================================================
